---- MODULE Spec2Model ----
(* Coordination core of the autonomous agent pool (backend/agent).          *)
(* Each AgentWorker runs start() -> _run_autonomous_loop(); suspension      *)
(* happens only at awaits, so every action below is the code between two    *)
(* awaits of one worker, or one call of the lifecycle API.                  *)
EXTENDS Integers, Sequences, FiniteSets, TLC

(***************************************************************************)
(* Bounds of the model                                                     *)
(***************************************************************************)
\* max_iterations of _run_autonomous_loop (50 in worker.py:266), scaled down
max_iterations == 3
\* largest number of RUN commands one oracle response carries
MaxCmds == 1

\* largest number of pattern matches in one command output
MaxFacts == 2

\* the consecutive rate-limit failures followed, and the seconds of the clock
\* the instruction records kept (100 in the source)
MaxHistory == 1
\* the findings saved by the workers
MaxFindings == 2
\* the start requests followed
MaxOps == 2
\* the instructions added to the queue of one agent
MaxQueued == 2
\* the broadcast tasks created
MaxTasks == 4
\* the calls of the model router
MaxRequests == 3
\* the team messages delivered to a worker
MaxMsgs == 11
\* the consecutive sandbox failures followed
MaxErrors == 3
MaxFailures == 11
MaxTime == 130

Workers == {"a1", "a2"}
Targets == {"", "T"}

(***************************************************************************)
(* Commands proposed by the oracle, as word lists (cmd.split())            *)
(***************************************************************************)
cmdScan    == <<"nmap", "-sV", "T">>
cmdScanAll == <<"nmap", "-p-", "T">>
cmdWipe    == <<"rm", "-rf", "/">>
Commands == {cmdScan, cmdScanAll, cmdWipe}

\* a tool outside the allow-list, and an allowed tool chained with a
\* forbidden pattern
cmdEvil    == <<"evil", "T">>
cmdChain   == <<"nmap", "T", ";", "rm", "-rf", "/">>
AllCommands == Commands \cup {cmdEvil, cmdChain}

\* commands of other allowed tools
cmdDirs == <<"gobuster", "dir", "-u", "T">>
cmdSubs == <<"subfinder", "-d", "T">>

\* hash(cmd) of the running interpreter: some fixed integer per text
PyHash(cmd) ==
    CASE cmd = cmdScan    -> 51234
      [] cmd = cmdScanAll -> 71234
      [] cmd = cmdWipe    -> 20077
      [] cmd = cmdEvil    -> 30005
      [] cmd = cmdChain   -> 48611
      [] cmd = cmdDirs    -> 60321

HashRange == 10000

TaskId(tgt, cmd) == <<tgt, cmd[1], PyHash(cmd) % HashRange>>

TaskIds == {TaskId("T", c) : c \in AllCommands \cup {cmdDirs}}

ALL_ALLOWED_TOOLS == {"nmap", "gobuster", "subfinder", "sqlmap"}

is_tool_allowed(cmd) == cmd[1] \in ALL_ALLOWED_TOOLS

\* FORBIDDEN_PATTERNS as word sequences occurring in the command
is_dangerous_command(cmd) ==
    \/ \E i \in 1..(Len(cmd) - 1) : cmd[i] = "rm" /\ cmd[i + 1] = "-rf"
    \/ \E i \in 1..Len(cmd) : cmd[i] \in {"mkfs", "reboot", "shutdown", "halt"}

(***************************************************************************)
(* Oracle outcomes                                                         *)
(***************************************************************************)
\* an error text, by the substrings the worker looks for
ErrUnauthorized == [rate |-> FALSE, c429 |-> FALSE, c401 |-> TRUE,  unauth |-> TRUE]
ErrRateLimited  == [rate |-> TRUE,  c429 |-> TRUE,  c401 |-> FALSE, unauth |-> FALSE]
ErrTimeout      == [rate |-> FALSE, c429 |-> FALSE, c401 |-> FALSE, unauth |-> FALSE]
ErrProvider     == [rate |-> TRUE,  c429 |-> FALSE, c401 |-> TRUE,  unauth |-> TRUE]
OracleErrors == {ErrUnauthorized, ErrRateLimited, ErrTimeout, ErrProvider}
\* the text of an OSError of the log file or of the store ("[Errno 28] No
\* space left on device"): none of the substrings
ErrStep == [rate |-> FALSE, c429 |-> FALSE, c401 |-> FALSE, unauth |-> FALSE]

CmdSeqs == UNION {[1..n -> Commands] : n \in 0..MaxCmds}
OracleResponses == [end : BOOLEAN, commands : CmdSeqs]

\* the responses of an oracle that proposes any command
AnyCmdSeqs == UNION {[1..n -> AllCommands] : n \in 0..MaxCmds}
AnyResponses == [end : BOOLEAN, commands : AnyCmdSeqs]

\* the rate-limit test matching nothing
IsRateLimitErrorNever(e) == FALSE

\* "rate" in error_str.lower() or "429" in error_str
IsRateLimitError(e) == e.rate \/ e.c429

\* "401" in error_str and "Unauthorized" in error_str
IsAuthError(e) == e.c401 /\ e.unauth

ThrottleResults ==
    {[should_pause |-> FALSE, throttle_level |-> "NONE"],
     [should_pause |-> FALSE, throttle_level |-> "LIGHT"],
     [should_pause |-> FALSE, throttle_level |-> "MODERATE"],
     [should_pause |-> FALSE, throttle_level |-> "HEAVY"],
     [should_pause |-> TRUE,  throttle_level |-> "HEAVY"]}

WaitTimes == {0, 1}

(***************************************************************************)
(* Command outputs, as the matches of the discovery patterns in them       *)
(***************************************************************************)
ShareCommands == {cmdScan, cmdDirs, cmdSubs}

\* "<port>/tcp open <service>", "<path> (Status: <code>", "<name>.<target>"
PortLines == {[kind |-> "port", name |-> "http", num |-> 80],
              [kind |-> "port", name |-> "https", num |-> 443]}
PathLines == {[kind |-> "path", name |-> "/admin", num |-> 200]}
SubLines == {[kind |-> "sub", name |-> "www.T", num |-> 0]}
Lines == PortLines \cup PathLines \cup SubLines
Outputs == UNION {[1..n -> Lines] : n \in 0..MaxFacts}

NoFact == [kind |-> "none", name |-> "", num |-> 0]

\* one of the words occurs in the command
HasWord(cmd, ws) == \E i \in DOMAIN cmd : cmd[i] \in ws

OfKind(result, k) == SelectSeq(result, LAMBDA l : l.kind = k)

\* the matches handled for a command and its output, in the order handled
Matches(cmd, result) ==
    (IF HasWord(cmd, {"nmap"}) THEN OfKind(result, "port") ELSE <<>>)
    \o (IF HasWord(cmd, {"gobuster", "dirb", "ffuf"})
        THEN OfKind(result, "path") ELSE <<>>)
    \o (IF HasWord(cmd, {"subfinder", "amass"})
        THEN OfKind(result, "sub") ELSE <<>>)

\* the inserts whose return value decides a share_discovery call
IsSharedKind(f) == f.kind = "port"

(***************************************************************************)
(* State                                                                   *)
(***************************************************************************)
VARIABLES
    target,             \* AgentWorker.target
    status,             \* AgentWorker.status
    paused,             \* AgentWorker.paused
    stopped,            \* AgentWorker.stopped
    pc,                 \* where start() of the worker is suspended
    iteration,          \* local `iteration` of _run_autonomous_loop
    pending,            \* commands of the current response not yet handled
    execution_history,  \* AgentWorker.execution_history (commands run)
    claims,             \* task registry of InterAgentCommunication
    oracleCalls,        \* history: model_router.generate calls started
    lastError,          \* history: the error of the last oracle call, if it failed,
                        \* and whether record_request(success=False) followed
    sandboxRuns,        \* history: executor.execute calls per task id
    claimLost,          \* history: some claim_task call for the task id returned False
    claimWins,          \* history: claim_task calls per task id that returned True
    stopAt,             \* history: pc of the worker when stop() first came
    gate,               \* history: pause observed, no resume()/stop() since
    kb,                 \* KnowledgeBase: per target, the facts stored
    shTodo,             \* _extract_and_share_discoveries: matches still to handle
    shAdded,            \* ... the port whose add_port returned True, not yet shared
    addFirst,           \* history: what the first insert of a fact returned
    addAgain,           \* history: the fact was inserted a second time
    newAdds,            \* history: inserts of a fact that returned True
    shared,             \* history: share_discovery calls per fact
    operation_active,   \* AgentManager.operation_active
    op_pc,              \* where start_operation is suspended
    op_agents,          \* the workers whose start() start_operation gathers
    now,                \* the clock (time.time()), in seconds
    rl,                 \* RateLimiter: the RateBudget of the model
    grant,              \* the estimated tokens acquire let through (0: none)
    coolRet,            \* history: the cooldown_seconds last returned since
                        \* the last successful request (0: none)
    wake,               \* per worker, the time its asyncio.sleep ends
    thr,                \* IntelligentThrottler: per agent, its ThrottleState
    ex,                 \* per worker, its CommandExecutor and its last call
    mail,               \* MessageBus: per worker, its mailbox
    instruction_history,\* per worker, the instruction records kept
    claimedCmd,         \* history: per task id, the command whose claim won
    shared_findings,    \* shared_knowledge["findings"] of the manager
    agents,             \* AgentManager.agents: the ids of the pool
    created,            \* the agent ids handed out so far
    ops,                \* per start request, where its start_operation is
    admin,              \* the last call of the agent API and what it returned
    qd,                 \* QueueDistributor: agent_queues, and what was added,
                        \* popped and last returned (history)
    ws,                 \* ConnectionManager of the websocket endpoint
    mr                  \* ModelRouter: its counters and its last call

workerVars == <<target, status, paused, stopped, pc, iteration, pending,
                execution_history>>
histVars == <<oracleCalls, lastError, sandboxRuns, claimLost, claimWins,
              stopAt, gate>>
\* the shared services behind the loop and the sharing of discoveries
shareVars == <<kb, shTodo, shAdded, addFirst, addAgain, newAdds, shared>>
managerVars == <<operation_active, op_pc, op_agents>>
rateVars == <<now, rl, grant, coolRet, wake>>
throttleVars == <<thr>>
execVars == <<ex>>
mailVars == <<mail>>
logVars == <<instruction_history, claimedCmd>>
\* what the manager and the server keep beside the workers
poolVars == <<agents, created, ops, admin>>
frontVars == <<shared_findings, poolVars, qd, ws, mr>>
moreVars == <<throttleVars, execVars, mailVars, logVars, frontVars>>
\* the workers and the services of their loop
coreVars == <<workerVars, claims, histVars, shareVars, managerVars, rateVars,
              throttleVars, execVars, mailVars, logVars>>
serviceVars == <<shareVars, managerVars, rateVars, moreVars>>
vars == <<workerVars, claims, histVars, serviceVars>>

Available == [state |-> "available", claimed_by |-> "", result |-> ""]

Ops == 1..MaxOps

NoCall == [op |-> "none", agent_id |-> "", returned |-> FALSE]

\* the ids the callers of the queue distributor name: the workers, and an
\* id nothing was ever added for
QueueIds == Workers \cup {"ghost"}

\* the {} that pop_agent_instruction returns for an empty or unknown queue
NoInstruction == [key |-> "", command |-> <<>>]

\* agent_queues is a dict: a function on the ids that have a queue
FreshDistributor ==
    [agent_queues |-> [a \in {} |-> <<>>],
     added |-> [a \in QueueIds |-> <<>>],
     popped |-> [a \in QueueIds |-> <<>>],
     ret |-> [agent_id |-> "", value |-> NoInstruction, was_empty |-> TRUE,
              same |-> TRUE]]

\* the websocket clients
Clients == {"c1", "c2"}

TaskIdsWs == 1..MaxTasks

\* an asyncio task of a broadcast loop: which loop it runs, where it is
\* suspended, whether a cancellation is waiting to be thrown into it, and
\* (history) whether cancel() was ever called on it
NoTask == [kind |-> "none", at |-> "none", cancel |-> FALSE,
           cancelled |-> FALSE]

\* the task fields hold a task id, 0 for None; made counts the tasks created
FreshConnectionManager ==
    [active_connections |-> {}, running |-> FALSE, broadcast_task |-> 0,
     history_broadcast_task |-> 0, tasks |-> [t \in TaskIdsWs |-> NoTask],
     made |-> 0]

\* the counters of the router; history: how its last call ended and the
\* counters before that call
FreshRouter ==
    [request_count |-> 0, error_count |-> 0, outcome |-> "none",
     requests_before |-> 0, errors_before |-> 0]

\* the mailbox of a worker: its messages in arrival order; the ids rendered
\* into the user message last built and the ids then fetched; history: the
\* ids ever rendered, and the ids ever fetched without being rendered
FreshMailbox ==
    [box |-> <<>>, prompt |-> <<>>, fetched |-> <<>>, shown |-> {},
     held |-> {}]

KbTargets == Targets \ {""}
EmptyKb == [ports |-> <<>>, directories |-> <<>>, subdomains |-> <<>>]

\* a RateBudget nothing was recorded in
FreshBudget == [failures |-> 0, cooldown_until |-> 0, requests |-> <<>>]

\* a ThrottleState before the first sample: level NONE
FreshThrottle == [level |-> 0, prev |-> 0, was |-> <<0, 0>>, seen |-> <<0, 0>>]

\* an executor that ran nothing yet
FreshExecutor == [error_count |-> 0, outcome |-> "none", returned |-> "none",
                  before |-> 0]

NoError == [failed |-> FALSE, text |-> ErrTimeout, recorded |-> FALSE]
Failed(e, rec) == [failed |-> TRUE, text |-> e, recorded |-> rec]

Init ==
    /\ target \in [Workers -> Targets]
    /\ status = [w \in Workers |-> "idle"]
    /\ paused = [w \in Workers |-> FALSE]
    /\ stopped = [w \in Workers |-> FALSE]
    /\ pc = [w \in Workers |-> "new"]
    /\ iteration = [w \in Workers |-> 0]
    /\ pending = [w \in Workers |-> <<>>]
    /\ execution_history = [w \in Workers |-> <<>>]
    /\ claims = [t \in TaskIds |-> Available]
    /\ oracleCalls = [w \in Workers |-> 0]
    /\ lastError = [w \in Workers |-> NoError]
    /\ sandboxRuns = [t \in TaskIds |-> 0]
    /\ claimLost = [t \in TaskIds |-> FALSE]
    /\ claimWins = [t \in TaskIds |-> 0]
    /\ stopAt = [w \in Workers |-> "none"]
    /\ gate = [w \in Workers |-> FALSE]
    /\ kb = [t \in KbTargets |-> EmptyKb]
    /\ shTodo = [w \in Workers |-> <<>>]
    /\ shAdded = [w \in Workers |-> NoFact]
    /\ addFirst = [f \in Lines |-> "none"]
    /\ addAgain = [f \in Lines |-> FALSE]
    /\ newAdds = [f \in Lines |-> 0]
    /\ shared = [f \in Lines |-> 0]
    /\ operation_active = FALSE
    /\ op_pc = "idle"
    /\ op_agents = {}
    /\ now = 0
    /\ rl = FreshBudget
    /\ grant = 0
    /\ coolRet = 0
    /\ wake = [w \in Workers |-> 0]
    /\ thr = [w \in Workers |-> FreshThrottle]
    /\ ex = [w \in Workers |-> FreshExecutor]
    /\ mail = [w \in Workers |-> FreshMailbox]
    /\ instruction_history = [w \in Workers |-> <<>>]
    /\ claimedCmd = [t \in TaskIds |-> <<>>]
    /\ shared_findings = <<>>
    /\ agents = {}
    /\ created = 0
    /\ ops = [o \in Ops |-> "none"]
    /\ admin = NoCall
    /\ qd = FreshDistributor
    /\ ws = FreshConnectionManager
    /\ mr = FreshRouter


(***************************************************************************)
(* Task registry (agent.collaboration, not part of the sources: modelled   *)
(* from the contract of the TaskCoordinator)                               *)
(***************************************************************************)
\* a registry that offers completed tasks again
is_task_available_rerun(t) == claims[t].state # "claimed"

is_task_available(t) == claims[t].state = "available"

\* a claim that only refuses completed tasks
claim_task_wins_racy(agent, t) == claims[t].state # "completed"

\* the registry after claim_task(agent, t), and what the call returns
claim_task_wins(agent, t) == claims[t].state = "available"

claim_task(agent, t) ==
    IF claim_task_wins(agent, t)
    THEN [claims EXCEPT ![t] = [state |-> "claimed", claimed_by |-> agent,
                                result |-> ""]]
    ELSE claims

\* claimed -> completed by the owner; a no-op for any other caller
complete_task(agent, t, result) ==
    IF claims[t].state = "claimed" /\ claims[t].claimed_by = agent
    THEN [claims EXCEPT ![t] = [state |-> "completed", claimed_by |-> agent,
                                result |-> result]]
    ELSE claims

(***************************************************************************)
(* Conditions of _run_autonomous_loop                                      *)
(***************************************************************************)
WhileCond(w) == ~stopped[w] /\ iteration[w] < max_iterations

PauseHolds(w) == paused[w] /\ ~stopped[w]

\* the cap test off by one
CapReachedLate(i) == i > max_iterations

CapReached(i) == i >= max_iterations

NeedsThrottleDelay(r) == r.throttle_level \in {"HEAVY", "MODERATE"}

(***************************************************************************)
(* Lifecycle API: AgentWorker.pause / resume / stop                        *)
(***************************************************************************)
Pause(w) ==
    /\ paused' = [paused EXCEPT ![w] = TRUE]
    /\ status' = [status EXCEPT ![w] = "paused"]
    /\ UNCHANGED <<target, stopped, pc, iteration, pending, execution_history,
                   claims, histVars>>
    /\ UNCHANGED serviceVars

Resume(w) ==
    /\ paused' = [paused EXCEPT ![w] = FALSE]
    /\ status' = [status EXCEPT ![w] = "running"]
    /\ gate' = [gate EXCEPT ![w] = FALSE]
    /\ UNCHANGED <<target, stopped, pc, iteration, pending, execution_history,
                   claims, oracleCalls, lastError, sandboxRuns, claimLost,
                   claimWins, stopAt>>
    /\ UNCHANGED serviceVars

Stop(w) ==
    /\ stopped' = [stopped EXCEPT ![w] = TRUE]
    /\ status' = [status EXCEPT ![w] = "stopped"]
    /\ gate' = [gate EXCEPT ![w] = FALSE]
    /\ stopAt' = [stopAt EXCEPT ![w] = IF @ = "none" THEN pc[w] ELSE @]
    /\ UNCHANGED <<target, paused, pc, iteration, pending, execution_history,
                   claims, oracleCalls, lastError, sandboxRuns, claimLost,
                   claimWins>>
    /\ UNCHANGED serviceVars

(***************************************************************************)
(* MessageBus (agent.collaboration, not part of the sources: modelled from *)
(* its contract) and _build_user_message_with_collaboration                *)
(***************************************************************************)
Take(lst, n) == SubSeq(lst, 1, IF Len(lst) < n THEN Len(lst) ELSE n)

Ids(msgs) == [i \in 1..Len(msgs) |-> msgs[i].id]

IdSet(msgs) == {msgs[i].id : i \in 1..Len(msgs)}

\* the first `limit` messages of the mailbox, in arrival order, the read ones
\* left out where unread_only is set
get_messages(box, unread_only, limit) ==
    Take(SelectSeq(box, LAMBDA m : ~unread_only \/ ~m.read), limit)

\* the messages with these ids are marked read
clear_messages(box, ids) ==
    [i \in 1..Len(box) |->
        IF box[i].id \in ids THEN [box[i] EXCEPT !.read = TRUE] ELSE box[i]]

\* limit=10 of the fetch, and the slice [:5] of the messages rendered
FetchLimit == 10
RenderLimit == 5

\* marking every fetched message
ClearedAllFetched(messages) == IdSet(messages)

\* the ids handed to clear_messages: [m.id for m in messages[:5]]
Cleared(messages) == IdSet(Take(messages, RenderLimit))

\* the messages written into the user message: messages[:5]
Rendered(messages) == Take(messages, RenderLimit)

\* the mailbox after the user message of an iteration was built
build_user_message(m) ==
    LET messages == get_messages(m.box, TRUE, FetchLimit)
    IN  [box |-> IF messages # <<>>
                 THEN clear_messages(m.box, Cleared(messages))
                 ELSE m.box,
         prompt |-> Ids(Rendered(messages)),
         fetched |-> Ids(messages),
         shown |-> m.shown \cup IdSet(Rendered(messages)),
         held |-> m.held \cup (IdSet(messages) \ IdSet(Rendered(messages)))]

\* a message of the team arrives in the mailbox of the worker
Deliver(w) ==
    /\ Len(mail[w].box) < MaxMsgs
    /\ mail' = [mail EXCEPT ![w].box =
                    Append(@, [id |-> Len(@) + 1, read |-> FALSE])]
    /\ UNCHANGED <<workerVars, claims, histVars, shareVars, managerVars,
                   rateVars, frontVars,
                   throttleVars, execVars, logVars>>

\* the worker builds a user message
BuildUserMessage(w) ==
    /\ mail' = [mail EXCEPT ![w] = build_user_message(@)]
    /\ UNCHANGED <<workerVars, claims, histVars, shareVars, managerVars,
                   rateVars, frontVars,
                   throttleVars, execVars, logVars>>

(***************************************************************************)
(* AgentWorker.start                                                       *)
(***************************************************************************)
Start(w) ==
    /\ pc[w] = "new"
    /\ status' = [status EXCEPT ![w] = "running"]
    /\ pc' = [pc EXCEPT ![w] = "init"]
    /\ UNCHANGED <<target, paused, stopped, iteration, pending,
                   execution_history, claims, histVars>>
    /\ UNCHANGED serviceVars

\* a start() that enters the loop without looking at the target
StartLoopAnyTarget(w) ==
    /\ pc[w] = "init"
    /\ pc' = [pc EXCEPT ![w] = "loop_top"]
    /\ UNCHANGED <<target, status, paused, stopped, iteration, pending,
                   execution_history, claims, histVars>>
    /\ UNCHANGED serviceVars

\* _initialize_systems() returned: standby without a target, else the loop
StartLoop(w) ==
    /\ pc[w] = "init"
    /\ IF target[w] = ""
       THEN /\ status' = [status EXCEPT ![w] = "idle"]
            /\ pc' = [pc EXCEPT ![w] = "returned"]
       ELSE /\ pc' = [pc EXCEPT ![w] = "loop_top"]
            /\ UNCHANGED status
    /\ UNCHANGED <<target, paused, stopped, iteration, pending,
                   execution_history, claims, histVars>>
    /\ UNCHANGED serviceVars

(***************************************************************************)
(* _run_autonomous_loop                                                    *)
(***************************************************************************)
\* the oracle call begins (model_router.generate is awaited)
CallOracle(w) ==
    /\ pc' = [pc EXCEPT ![w] = "oracle"]
    /\ oracleCalls' = [oracleCalls EXCEPT ![w] = @ + 1]
    /\ lastError' = [lastError EXCEPT ![w] = NoError]

\* a pass that does not count itself
NextIterationUncounted(w) ==
    /\ UNCHANGED <<iteration, status>>
    /\ mail' = [mail EXCEPT ![w] = build_user_message(@)]
    /\ \E wait_time \in WaitTimes :
          IF wait_time > 0
          THEN /\ pc' = [pc EXCEPT ![w] = "rate_wait"]
               /\ UNCHANGED <<oracleCalls, lastError>>
          ELSE CallOracle(w)

\* iteration += 1, the cap check, the user message, and rate_limiter.acquire
NextIteration(w) ==
    /\ iteration' = [iteration EXCEPT ![w] = @ + 1]
    /\ IF CapReached(iteration[w] + 1)
       THEN /\ status' = [status EXCEPT ![w] = "completed"]
            /\ pc' = [pc EXCEPT ![w] = "loop_exit"]
            /\ UNCHANGED <<oracleCalls, lastError, mail>>
       ELSE /\ UNCHANGED status
            /\ mail' = [mail EXCEPT ![w] = build_user_message(@)]
            /\ \E wait_time \in WaitTimes :
                  IF wait_time > 0
                  THEN /\ pc' = [pc EXCEPT ![w] = "rate_wait"]
                       /\ UNCHANGED <<oracleCalls, lastError>>
                  ELSE CallOracle(w)

\* the answer of throttler.check_and_throttle at the head of a pass
AfterThrottle(w, r) ==
    IF r.should_pause
    THEN /\ pc' = [pc EXCEPT ![w] = "throttle_pause"]
         /\ UNCHANGED <<status, iteration, oracleCalls, lastError, mail>>
    ELSE IF NeedsThrottleDelay(r)
    THEN /\ pc' = [pc EXCEPT ![w] = "throttle_delay"]
         /\ UNCHANGED <<status, iteration, oracleCalls, lastError, mail>>
    ELSE NextIteration(w)

LoopTop(w) ==
    /\ pc[w] = "loop_top"
    /\ IF ~WhileCond(w)
       THEN /\ pc' = [pc EXCEPT ![w] = "loop_exit"]
            /\ UNCHANGED <<status, iteration, oracleCalls, lastError, gate,
                           mail>>
       ELSE IF PauseHolds(w)
       THEN /\ pc' = [pc EXCEPT ![w] = "pause_wait"]
            /\ gate' = [gate EXCEPT ![w] = TRUE]
            /\ UNCHANGED <<status, iteration, oracleCalls, lastError, mail>>
       ELSE /\ \E r \in ThrottleResults : AfterThrottle(w, r)
            /\ UNCHANGED gate
    /\ UNCHANGED <<target, paused, stopped, pending, execution_history, claims,
                   sandboxRuns, claimLost, claimWins, stopAt>>
    /\ UNCHANGED <<shareVars, managerVars, rateVars, frontVars,
                   throttleVars, execVars,
                   logVars>>

\* a pause wait that sleeps once and goes on, whatever the flag
PauseWaitOnce(w) ==
    /\ pc[w] = "pause_wait"
    /\ IF stopped[w]
       THEN /\ pc' = [pc EXCEPT ![w] = "loop_exit"]
            /\ UNCHANGED <<status, iteration, oracleCalls, lastError, mail>>
       ELSE \E r \in ThrottleResults : AfterThrottle(w, r)
    /\ UNCHANGED <<target, paused, stopped, pending, execution_history, claims,
                   sandboxRuns, claimLost, claimWins, stopAt, gate>>
    /\ UNCHANGED <<shareVars, managerVars, rateVars, frontVars,
                   throttleVars, execVars,
                   logVars>>

\* asyncio.sleep(1) of the pause wait returned and the pause no longer holds
PauseWait(w) ==
    /\ pc[w] = "pause_wait"
    /\ ~PauseHolds(w)
    /\ IF stopped[w]
       THEN /\ pc' = [pc EXCEPT ![w] = "loop_exit"]
            /\ UNCHANGED <<status, iteration, oracleCalls, lastError, mail>>
       ELSE \E r \in ThrottleResults : AfterThrottle(w, r)
    /\ UNCHANGED <<target, paused, stopped, pending, execution_history, claims,
                   sandboxRuns, claimLost, claimWins, stopAt, gate>>
    /\ UNCHANGED <<shareVars, managerVars, rateVars, frontVars,
                   throttleVars, execVars,
                   logVars>>

\* the forced pause was slept: continue
ThrottlePauseDone(w) ==
    /\ pc[w] = "throttle_pause"
    /\ pc' = [pc EXCEPT ![w] = "loop_top"]
    /\ UNCHANGED <<target, status, paused, stopped, iteration, pending,
                   execution_history, claims, histVars>>
    /\ UNCHANGED serviceVars

\* the throttle delay was slept: the pass goes on
ThrottleDelayDone(w) ==
    /\ pc[w] = "throttle_delay"
    /\ NextIteration(w)
    /\ UNCHANGED <<target, paused, stopped, pending, execution_history, claims,
                   sandboxRuns, claimLost, claimWins, stopAt, gate>>
    /\ UNCHANGED <<shareVars, managerVars, rateVars, frontVars,
                   throttleVars, execVars,
                   logVars>>

\* the rate-limit wait was slept: the oracle is called
RateWaitDone(w) ==
    /\ pc[w] = "rate_wait"
    /\ CallOracle(w)
    /\ UNCHANGED <<target, status, paused, stopped, iteration, pending,
                   execution_history, claims, sandboxRuns, claimLost,
                   claimWins, stopAt, gate>>
    /\ UNCHANGED serviceVars

\* the last n entries of a list: lst[-n:]
KeepLast(lst, n) ==
    IF Len(lst) > n THEN SubSeq(lst, Len(lst) - n + 1, Len(lst)) ELSE lst

\* _broadcast_model_instruction: the record of response r is appended and
\* the list cut to its last MaxHistory records
store_instruction(w, r) ==
    KeepLast(Append(instruction_history[w],
                    [call |-> oracleCalls[w], end |-> r.end,
                     commands |-> Len(r.commands)]),
             MaxHistory)

\* a loop that runs the commands of a response before it looks for the
\* completion sentinel
OracleAnswersRunsFirst(w, rs, keep) ==
    /\ pc[w] = "oracle"
    /\ \E r \in rs :
          /\ instruction_history' =
                [instruction_history EXCEPT
                    ![w] = IF keep THEN store_instruction(w, r) ELSE @]
          /\ IF r.commands # <<>>
             THEN /\ pending' = [pending EXCEPT ![w] = r.commands]
                  /\ pc' = [pc EXCEPT ![w] = "cmd_avail"]
                  /\ UNCHANGED status
             ELSE IF r.end
             THEN /\ status' = [status EXCEPT ![w] = "completed"]
                  /\ pc' = [pc EXCEPT ![w] = "loop_exit"]
                  /\ UNCHANGED pending
             ELSE /\ pc' = [pc EXCEPT ![w] = "delay"]
                  /\ UNCHANGED <<status, pending>>
    /\ UNCHANGED <<target, paused, stopped, iteration, execution_history,
                   claims, histVars>>
    /\ UNCHANGED <<shareVars, managerVars, rateVars, frontVars,
                   throttleVars, execVars,
                   mailVars, claimedCmd>>

\* the oracle answered with one of the responses rs; the instruction
\* records of the worker are followed where keep is set
OracleAnswers(w, rs, keep) ==
    /\ pc[w] = "oracle"
    /\ \E r \in rs :
          /\ instruction_history' =
                [instruction_history EXCEPT
                    ![w] = IF keep THEN store_instruction(w, r) ELSE @]
          /\ IF r.end
             THEN /\ status' = [status EXCEPT ![w] = "completed"]
                  /\ pc' = [pc EXCEPT ![w] = "loop_exit"]
                  /\ UNCHANGED pending
             ELSE IF r.commands # <<>>
             THEN /\ pending' = [pending EXCEPT ![w] = r.commands]
                  /\ pc' = [pc EXCEPT ![w] = "cmd_avail"]
                  /\ UNCHANGED status
             ELSE /\ pc' = [pc EXCEPT ![w] = "delay"]
                  /\ UNCHANGED <<status, pending>>
    /\ UNCHANGED <<target, paused, stopped, iteration, execution_history,
                   claims, histVars>>
    /\ UNCHANGED <<shareVars, managerVars, rateVars, frontVars,
                   throttleVars, execVars,
                   mailVars, claimedCmd>>

OracleOk(w) == OracleAnswers(w, OracleResponses, TRUE)

\* the same for the workers of a pool, their instruction records left aside
OracleOkPool(w) == OracleAnswers(w, OracleResponses, FALSE)

OracleOkAny(w) == OracleAnswers(w, AnyResponses, FALSE)

\* the responses of an oracle that also proposes a directory scan
WideCmdSeqs == UNION {[1..n -> Commands \cup {cmdDirs}] : n \in 0..MaxCmds}
WideResponses == [end : BOOLEAN, commands : WideCmdSeqs]

OracleOkWide(w) == OracleAnswers(w, WideResponses, TRUE)

\* the oracle call raised: the except branch
OracleFail(w) ==
    /\ pc[w] = "oracle"
    /\ \E e \in OracleErrors :
          IF IsRateLimitError(e)
          THEN /\ lastError' = [lastError EXCEPT ![w] = Failed(e, FALSE)]
               /\ pc' = [pc EXCEPT ![w] = "cooldown"]
               /\ UNCHANGED status
          ELSE /\ lastError' = [lastError EXCEPT ![w] = Failed(e, TRUE)]
               /\ IF IsAuthError(e)
                  THEN /\ status' = [status EXCEPT ![w] = "error"]
                       /\ pc' = [pc EXCEPT ![w] = "loop_exit"]
                  ELSE /\ pc' = [pc EXCEPT ![w] = "backoff"]
                       /\ UNCHANGED status
    /\ UNCHANGED <<target, paused, stopped, iteration, pending,
                   execution_history, claims, oracleCalls, sandboxRuns,
                   claimLost, claimWins, stopAt, gate>>
    /\ UNCHANGED serviceVars

\* a sleep that ends a pass returned: back to the while condition
BackToTop(w, at) ==
    /\ pc[w] = at
    /\ pc' = [pc EXCEPT ![w] = "loop_top"]
    /\ UNCHANGED <<target, status, paused, stopped, iteration, pending,
                   execution_history, claims, histVars>>
    /\ UNCHANGED serviceVars

CooldownDone(w) == BackToTop(w, "cooldown")

\* a backoff that leaves the loop
BackoffDoneBreaks(w) ==
    /\ pc[w] = "backoff"
    /\ pc' = [pc EXCEPT ![w] = "loop_exit"]
    /\ UNCHANGED <<target, status, paused, stopped, iteration, pending,
                   execution_history, claims, histVars>>
    /\ UNCHANGED serviceVars

BackoffDone(w) == BackToTop(w, "backoff")

DelayDone(w) == BackToTop(w, "delay")

\* after the loop: the unconditional status assignment, then start() returns
LoopExit(w) ==
    /\ pc[w] = "loop_exit"
    /\ status' = [status EXCEPT ![w] = "completed"]
    /\ pc' = [pc EXCEPT ![w] = "returned"]
    /\ UNCHANGED <<target, paused, stopped, iteration, pending,
                   execution_history, claims, histVars>>
    /\ UNCHANGED serviceVars

(***************************************************************************)
(* _execute_commands_with_coordination                                     *)
(***************************************************************************)
CurrentTask(w) == TaskId(target[w], Head(pending[w]))

\* the command at the head of the list is done with: next one, or the
\* rest of the pass (findings, knowledge sharing, the final delay)
NextCommand(w) ==
    /\ pending' = [pending EXCEPT ![w] = Tail(@)]
    /\ pc' = [pc EXCEPT ![w] = IF Tail(pending[w]) = <<>> THEN "delay"
                                ELSE "cmd_avail"]

\* the allow-list alone
PassesSafetyAllowedOnly(cmd) == is_tool_allowed(cmd)

\* the safety predicates let the command through
PassesSafety(cmd) == ~is_dangerous_command(cmd) /\ is_tool_allowed(cmd)

\* going on with the command whatever claim_task returned
ProceedsAfterClaimAlways(claimed) == TRUE

\* whether the worker goes on with the command after claim_task returned
ProceedsAfterClaim(claimed) == claimed

\* is_task_available returned
CmdAvailable(w) ==
    /\ pc[w] = "cmd_avail"
    /\ IF is_task_available(CurrentTask(w))
       THEN /\ pc' = [pc EXCEPT ![w] = "cmd_claim"]
            /\ UNCHANGED pending
       ELSE NextCommand(w)
    /\ UNCHANGED <<target, status, paused, stopped, iteration,
                   execution_history, claims, histVars>>
    /\ UNCHANGED serviceVars

\* claim_task returned; a won claim is checked for safety and handed to the
\* sandbox
CmdClaim(w) ==
    LET t == CurrentTask(w)
        claimed == claim_task_wins(w, t)
    IN
    /\ pc[w] = "cmd_claim"
    /\ claims' = claim_task(w, t)
    /\ claimLost' = [claimLost EXCEPT ![t] = @ \/ ~claimed]
    /\ claimWins' = [claimWins EXCEPT ![t] = IF claimed THEN @ + 1 ELSE @]
    /\ claimedCmd' = IF claimed
                     THEN [claimedCmd EXCEPT ![t] = Head(pending[w])]
                     ELSE claimedCmd
    /\ IF ~ProceedsAfterClaim(claimed)
       THEN /\ NextCommand(w)
            /\ UNCHANGED sandboxRuns
       ELSE IF ~PassesSafety(Head(pending[w]))
       THEN /\ pc' = [pc EXCEPT ![w] = "cmd_blocked"]
            /\ UNCHANGED <<pending, sandboxRuns>>
       ELSE /\ pc' = [pc EXCEPT ![w] = "cmd_exec"]
            /\ sandboxRuns' = [sandboxRuns EXCEPT ![t] = @ + 1]
            /\ UNCHANGED pending
    /\ UNCHANGED <<target, status, paused, stopped, iteration,
                   execution_history, oracleCalls, lastError, stopAt, gate>>
    /\ UNCHANGED <<shareVars, managerVars, rateVars, frontVars,
                   throttleVars, execVars,
                   mailVars, instruction_history>>

\* a blocked command: complete_task(..., {"blocked": True}) and continue
CmdBlocked(w) ==
    /\ pc[w] = "cmd_blocked"
    /\ claims' = complete_task(w, CurrentTask(w), "blocked")
    /\ NextCommand(w)
    /\ UNCHANGED <<target, status, paused, stopped, iteration,
                   execution_history, histVars>>
    /\ UNCHANGED serviceVars

\* executor.execute returned: the history entry is appended
CmdExecDone(w) ==
    /\ pc[w] = "cmd_exec"
    /\ execution_history' =
          [execution_history EXCEPT ![w] = Append(@, Head(pending[w]))]
    /\ pc' = [pc EXCEPT ![w] = "cmd_complete"]
    /\ UNCHANGED <<target, status, paused, stopped, iteration, pending,
                   claims, histVars>>
    /\ UNCHANGED serviceVars

\* discoveries were shared: complete_task with the result
CmdComplete(w) ==
    /\ pc[w] = "cmd_complete"
    /\ claims' = complete_task(w, CurrentTask(w), "command")
    /\ NextCommand(w)
    /\ UNCHANGED <<target, status, paused, stopped, iteration,
                   execution_history, histVars>>
    /\ UNCHANGED serviceVars

\* the steps of a claimed command that await something that can raise: the
\* log_event of a blocked command; the log_event before the sandbox and
\* save_execution after it; the sharing of discoveries
RaisingSteps == {"cmd_blocked", "cmd_exec", "cmd_complete"}

\* a step between claim_task and complete_task raised: the exception leaves
\* _execute_commands_with_coordination and reaches the except branch of the
\* loop, which records the failure and sleeps
CmdStepRaises(w) ==
    /\ pc[w] \in RaisingSteps
    /\ lastError' = [lastError EXCEPT ![w] = Failed(ErrStep, TRUE)]
    /\ pending' = [pending EXCEPT ![w] = <<>>]
    /\ pc' = [pc EXCEPT ![w] = "backoff"]
    /\ UNCHANGED <<target, status, paused, stopped, iteration,
                   execution_history, claims, oracleCalls, sandboxRuns,
                   claimLost, claimWins, stopAt, gate>>
    /\ UNCHANGED serviceVars

(***************************************************************************)
(* KnowledgeBase (agent.collaboration, not part of the sources: modelled   *)
(* from its contract; every insert is one indivisible step)                *)
(***************************************************************************)
KbField(f) ==
    CASE f.kind = "port" -> "ports"
      [] f.kind = "path" -> "directories"
      [] f.kind = "sub"  -> "subdomains"

\* an insert that never finds the fact
add_is_new_always(tgt, f) == TRUE

\* what add_port / add_directory / add_subdomain returns: newly inserted
add_is_new(tgt, f) ==
    ~\E i \in DOMAIN kb[tgt][KbField(f)] : kb[tgt][KbField(f)][i] = f

\* the knowledge base after the insert
add_fact(tgt, f) ==
    IF add_is_new(tgt, f)
    THEN [kb EXCEPT ![tgt][KbField(f)] = Append(@, f)]
    ELSE kb

\* a snapshot of what is known about the target
get_target_summary(tgt) == kb[tgt]

(***************************************************************************)
(* _extract_and_share_discoveries                                          *)
(***************************************************************************)
\* a command has run: its output is matched against the patterns
ExtractDiscoveries(w) ==
    /\ target[w] # ""
    /\ shTodo[w] = <<>> /\ shAdded[w] = NoFact
    /\ \E cmd \in ShareCommands, result \in Outputs :
          /\ Matches(cmd, result) # <<>>
          /\ shTodo' = [shTodo EXCEPT ![w] = Matches(cmd, result)]
    /\ UNCHANGED <<workerVars, claims, histVars, kb, shAdded, addFirst,
                   addAgain, newAdds, shared, managerVars, rateVars,
                   moreVars>>

\* the next match is inserted: add_port, add_directory or add_subdomain
InsertMatch(w) ==
    /\ shTodo[w] # <<>> /\ shAdded[w] = NoFact
    /\ LET f == Head(shTodo[w])
           added == add_is_new(target[w], f)
       IN /\ kb' = add_fact(target[w], f)
          /\ shAdded' = [shAdded EXCEPT ![w] =
                            IF IsSharedKind(f) /\ added THEN f ELSE NoFact]
          /\ addFirst' = [addFirst EXCEPT ![f] =
                            IF @ # "none" THEN @
                            ELSE IF added THEN "true" ELSE "false"]
          /\ addAgain' = [addAgain EXCEPT ![f] = @ \/ addFirst[f] # "none"]
          /\ newAdds' = [newAdds EXCEPT ![f] = IF added THEN @ + 1 ELSE @]
    /\ shTodo' = [shTodo EXCEPT ![w] = Tail(@)]
    /\ UNCHANGED <<workerVars, claims, histVars, shared, managerVars, rateVars,
                   moreVars>>

\* agent_comm.share_discovery for the fact just added
ShareDiscovery(w) ==
    /\ shAdded[w] # NoFact
    /\ shared' = [shared EXCEPT ![shAdded[w]] = @ + 1]
    /\ shAdded' = [shAdded EXCEPT ![w] = NoFact]
    /\ UNCHANGED <<workerVars, claims, histVars, kb, shTodo, addFirst,
                   addAgain, newAdds, managerVars, rateVars, moreVars>>

(***************************************************************************)
(* RateLimiter (agent.throttle, not part of the sources: modelled from its *)
(* contract, for one model name)                                           *)
(***************************************************************************)
\* the first cooldown and the largest, in seconds
BaseCooldown == 1
MaxCooldown == 300
\* the rolling window, in seconds, and the tokens it admits
WindowLen == 60
WindowTokens == 3
\* estimated_tokens / tokens_used of a request, in units of the budget
TokenSizes == {1, 2}

RECURSIVE Pow2(_)
Pow2(n) == IF n = 0 THEN 1 ELSE 2 * Pow2(n - 1)

\* a backoff that starts over at every fourth failure
BackoffWrapping(k) == BaseCooldown * Pow2((k - 1) % 4)

\* exponential backoff for the k-th consecutive failure, capped
Backoff(k) ==
    IF BaseCooldown * Pow2(k - 1) > MaxCooldown
    THEN MaxCooldown
    ELSE BaseCooldown * Pow2(k - 1)

\* cooldown_seconds returned by handle_rate_limit_error: the backoff of the
\* failure it counts
cooldown_seconds == Backoff(rl.failures + 1)

\* the budget after handle_rate_limit_error
handle_rate_limit_error ==
    [rl EXCEPT !.failures = @ + 1,
               !.cooldown_until = now + cooldown_seconds]

\* the requests of the window that ends at time t
Live(t) == SelectSeq(rl.requests, LAMBDA e : e.at + WindowLen > t)

RECURSIVE SumTokens(_)
SumTokens(es) == IF es = <<>> THEN 0 ELSE Head(es).tokens + SumTokens(Tail(es))

\* an acquire that counts every request ever recorded
wait_time_no_window(tokens) ==
    IF SumTokens(rl.requests) + tokens <= WindowTokens
    THEN 0
    ELSE WindowLen

\* wait_time returned by acquire(model, tokens): 0 with headroom, else the
\* seconds until the oldest request leaves the window
wait_time(tokens) ==
    IF SumTokens(Live(now)) + tokens <= WindowTokens
    THEN 0
    ELSE Head(Live(now)).at + WindowLen - now

\* the budget after record_request(model, tokens_used, success)
record_request(tokens, success) ==
    [rl EXCEPT !.requests = Append(Live(now), [at |-> now, tokens |-> tokens]),
               !.failures = IF success THEN 0 ELSE @]

(* callers of the limiter *)
\* acquire returns to the caller, who goes on if the wait is 0
Acquire ==
    /\ grant = 0
    /\ \E tokens \in TokenSizes :
          grant' = IF wait_time(tokens) = 0 THEN tokens ELSE 0
    /\ UNCHANGED <<workerVars, claims, histVars, shareVars, managerVars,
                   moreVars, now,
                   rl, coolRet, wake>>

\* the request went through: record_request(..., success=True)
RecordSuccess ==
    /\ grant > 0
    /\ rl' = record_request(grant, TRUE)
    /\ grant' = 0
    /\ coolRet' = 0
    /\ UNCHANGED <<workerVars, claims, histVars, shareVars, managerVars,
                   moreVars, now,
                   wake>>

\* the request was answered 429: handle_rate_limit_error
RateLimitError ==
    /\ grant > 0
    /\ rl.failures < MaxFailures
    /\ rl' = handle_rate_limit_error
    /\ coolRet' = cooldown_seconds
    /\ grant' = 0
    /\ UNCHANGED <<workerVars, claims, histVars, shareVars, managerVars,
                   moreVars, now,
                   wake>>

\* time passes, up to the next moment a request leaves the window
Advance ==
    /\ \E t \in {rl.requests[i].at + WindowLen : i \in DOMAIN rl.requests} :
          /\ t > now /\ t <= MaxTime
          /\ now' = t
    /\ UNCHANGED <<workerVars, claims, histVars, shareVars, managerVars,
                   moreVars, rl,
                   grant, coolRet, wake>>

(* the loop of a worker as the rate limiter and the clock see it *)
\* estimated_tokens of the loop's acquire, in units of the budget
EstimatedTokens == 2

\* the variables the timed steps of the loop leave alone
timedRest == <<target, paused, stopped, pending, execution_history, claims,
               sandboxRuns, claimLost, claimWins, stopAt, gate, shareVars,
               managerVars, moreVars, grant>>

\* iteration += 1, the cap check, acquire, and the sleep it asks for
TimedAcquire(w) ==
    /\ pc[w] = "loop_top"
    /\ WhileCond(w)
    /\ iteration' = [iteration EXCEPT ![w] = @ + 1]
    /\ IF CapReached(iteration[w] + 1)
       THEN /\ status' = [status EXCEPT ![w] = "completed"]
            /\ pc' = [pc EXCEPT ![w] = "loop_exit"]
            /\ UNCHANGED <<oracleCalls, lastError, wake>>
       ELSE /\ UNCHANGED status
            /\ IF wait_time(EstimatedTokens) > 0
               THEN /\ pc' = [pc EXCEPT ![w] = "rate_wait"]
                    /\ wake' = [wake EXCEPT ![w] = now + wait_time(EstimatedTokens)]
                    /\ UNCHANGED <<oracleCalls, lastError>>
               ELSE /\ CallOracle(w)
                    /\ UNCHANGED wake
    /\ UNCHANGED <<timedRest, now, rl, coolRet>>

\* asyncio.sleep(wait_time) returned: the oracle is called
TimedRateWaitDone(w) ==
    /\ pc[w] = "rate_wait"
    /\ now >= wake[w]
    /\ CallOracle(w)
    /\ UNCHANGED <<timedRest, status, iteration, now, rl, coolRet, wake>>

\* the oracle answered: record_request(success=True) and the next pass
TimedOracleOk(w) ==
    /\ pc[w] = "oracle"
    /\ \E tokens \in TokenSizes : rl' = record_request(tokens, TRUE)
    /\ coolRet' = 0
    /\ pc' = [pc EXCEPT ![w] = "loop_top"]
    /\ UNCHANGED <<timedRest, status, iteration, oracleCalls, lastError, now,
                   wake>>

\* the oracle call raised a rate-limit error: handle_rate_limit_error and
\* asyncio.sleep(cooldown['cooldown_seconds'])
TimedRateLimited(w) ==
    /\ pc[w] = "oracle"
    /\ rl.failures < MaxFailures
    /\ lastError' = [lastError EXCEPT ![w] = Failed(ErrRateLimited, FALSE)]
    /\ rl' = handle_rate_limit_error
    /\ coolRet' = cooldown_seconds
    /\ wake' = [wake EXCEPT ![w] = now + cooldown_seconds]
    /\ pc' = [pc EXCEPT ![w] = "cooldown"]
    /\ UNCHANGED <<timedRest, status, iteration, oracleCalls, now>>

\* the cooldown was slept: continue
TimedCooldownDone(w) ==
    /\ pc[w] = "cooldown"
    /\ now >= wake[w]
    /\ pc' = [pc EXCEPT ![w] = "loop_top"]
    /\ UNCHANGED <<timedRest, status, iteration, oracleCalls, lastError, now,
                   rl, coolRet, wake>>

\* time passes, up to the end of the sleep of a worker
SleepPasses ==
    /\ \E w \in Workers :
          /\ pc[w] \in {"rate_wait", "cooldown"}
          /\ wake[w] > now
          /\ now' = wake[w]
    /\ UNCHANGED <<workerVars, claims, histVars, shareVars, managerVars,
                   moreVars, rl,
                   grant, coolRet, wake>>

(***************************************************************************)
(* CommandExecutor.execute                                                 *)
(***************************************************************************)
\* how the subprocess of a call ends: it exits within the timeout,
\* communicate() times out, or spawning or reading it raises
Outcomes == {"exited", "timeout", "raised"}

\* the executor after a call with that outcome, and the kind of text returned
execute(e, outcome) ==
    CASE outcome = "exited" ->
           [error_count |-> 0, outcome |-> outcome, returned |-> "output",
            before |-> e.error_count]
      [] outcome = "timeout" ->
           [error_count |-> e.error_count, outcome |-> outcome,
            returned |-> "timed_out", before |-> e.error_count]
      [] OTHER ->
           [error_count |-> e.error_count + 1, outcome |-> outcome,
            returned |-> "execution_error", before |-> e.error_count]

\* the worker runs a command in the sandbox
Execute(w) ==
    /\ ex[w].error_count < MaxErrors
    /\ \E outcome \in Outcomes : ex' = [ex EXCEPT ![w] = execute(@, outcome)]
    /\ UNCHANGED <<workerVars, claims, histVars, shareVars, managerVars,
                   rateVars, frontVars,
                   throttleVars, mailVars, logVars>>

(***************************************************************************)
(* IntelligentThrottler (agent.throttle, not part of the sources: modelled *)
(* from its contract)                                                      *)
(***************************************************************************)
\* resource pressure samples (percent) on both sides of every band edge
Samples == {50, 59, 60, 74, 75, 89, 90, 95}

\* the band of a sample: 0 NONE, 1 LIGHT, 2 MODERATE, 3 HEAVY
Band(s) == IF s < 60 THEN 0 ELSE IF s < 75 THEN 1 ELSE IF s < 90 THEN 2 ELSE 3

LevelName(l) ==
    CASE l = 0 -> "NONE" [] l = 1 -> "LIGHT" [] l = 2 -> "MODERATE"
      [] OTHER -> "HEAVY"

Lower(a, b) == IF a < b THEN a ELSE b

\* a level that follows every sample
next_level_eager(st, b) == b

\* hysteresis: one sample in a lower band de-escalates, two consecutive
\* samples above the level escalate (to the lower of their bands)
next_level(st, b) ==
    IF b < st.level THEN b
    ELSE IF b > st.level /\ st.prev > st.level THEN Lower(b, st.prev)
    ELSE st.level

\* the ThrottleState after a check that sampled s
check_and_throttle(st, s) ==
    [level |-> next_level(st, Band(s)),
     prev |-> Band(s),
     was |-> <<st.was[2], st.level>>,
     seen |-> <<st.seen[2], Band(s)>>]

\* what the check returns to the loop
throttle_result(st) ==
    [should_pause |-> st.level = 3, throttle_level |-> LevelName(st.level)]

\* a worker asks the throttler at the head of a pass
CheckAndThrottle(w) ==
    /\ \E s \in Samples : thr' = [thr EXCEPT ![w] = check_and_throttle(@, s)]
    /\ UNCHANGED <<workerVars, claims, histVars, shareVars, managerVars,
                   rateVars, frontVars,
                   execVars, mailVars, logVars>>

(***************************************************************************)
(* The API of the server and the pool of the manager: create_agents,       *)
(* start_operation as a background task, pause/resume/delete by id         *)
(***************************************************************************)
\* the ids create_agents gives to new agents, in the order it hands them out
\* (uuid4 in the source); the first ones are the workers followed in detail
PoolIds ==
    <<"a1", "a2", "a3", "a4", "a5", "a6", "a7", "a8", "a9", "a10", "a11",
      "a12", "a13", "a14", "a15", "a16", "a17", "a18", "a19", "a20", "a21",
      "a22", "a23", "a24", "a25", "a26", "a27", "a28", "a29", "a30", "a31",
      "a32", "a33", "a34", "a35", "a36", "a37", "a38", "a39", "a40">>

\* min(target.num_agents, 10) of the start request
PerRequest == 10

\* num_agents of a start request
NumAgents == {1, 10, 12}

\* create_agents(num_agents, ...): the ids of the agents it adds to the pool
create_agents(num_agents) ==
    {PoolIds[i] : i \in (created + 1)..(created + num_agents)}

\* POST /start: the agents are created and start_operation is handed to the
\* background tasks
StartRequest ==
    \E num \in NumAgents, o \in Ops :
        LET num_agents == IF num < PerRequest THEN num ELSE PerRequest
        IN  /\ ops[o] = "none"
            /\ \A k \in 1..(o - 1) : ops[k] # "none"
            /\ agents' = agents \cup create_agents(num_agents)
            /\ created' = created + num_agents
            /\ ops' = [ops EXCEPT ![o] = "scheduled"]
            /\ UNCHANGED <<coreVars, shared_findings, admin, qd, ws, mr>>

\* POST /agents: the manager has no create_single_agent, the call raises
\* AttributeError and the handler answers 500
CreateAgentRequest ==
    /\ admin' = [op |-> "create", agent_id |-> "", returned |-> FALSE]
    /\ UNCHANGED <<coreVars, shared_findings, agents, created, ops, qd, ws,
                   mr>>

\* start_operation begins: the flag is set and the workers are gathered
OpBegin(o) ==
    /\ ops[o] = "scheduled"
    /\ operation_active' = TRUE
    /\ ops' = [ops EXCEPT ![o] = "gather"]
    /\ UNCHANGED <<workerVars, claims, histVars, shareVars, op_pc, op_agents,
                   rateVars, throttleVars, execVars, mailVars, logVars,
                   shared_findings, agents, created, admin,
                   qd, ws, mr>>

\* asyncio.gather returned: the report is generated
OpGathered(o) ==
    /\ ops[o] = "gather"
    /\ ops' = [ops EXCEPT ![o] = "report"]
    /\ UNCHANGED <<coreVars, shared_findings, agents, created, admin,
                   qd, ws, mr>>

\* generate_report returned: the flag is cleared, start_operation returns
OpDone(o) ==
    /\ ops[o] = "report"
    /\ operation_active' = FALSE
    /\ ops' = [ops EXCEPT ![o] = "done"]
    /\ UNCHANGED <<workerVars, claims, histVars, shareVars, op_pc, op_agents,
                   rateVars, throttleVars, execVars, mailVars, logVars,
                   shared_findings, agents, created, admin,
                   qd, ws, mr>>

\* generate_report raised (a report file cannot be written): the exception
\* leaves start_operation
OpReportRaises(o) ==
    /\ ops[o] = "report"
    /\ ops' = [ops EXCEPT ![o] = "raised"]
    /\ UNCHANGED <<coreVars, shared_findings, agents, created, admin,
                   qd, ws, mr>>

\* the ids the callers of the agent API name: the workers, and an id that
\* was never handed out
AdminIds == Workers \cup {"ghost"}

\* a manager that takes every id as pooled
InPoolAlways(agent_id) == TRUE

\* agent_id in self.agents
InPool(agent_id) == agent_id \in agents

\* what the calls leave alone
adminRest ==
    <<target, pc, iteration, pending, execution_history, claims, oracleCalls,
      lastError, sandboxRuns, claimLost, claimWins, shareVars, managerVars,
      rateVars, throttleVars, execVars, mailVars, logVars, shared_findings,
      created, ops, qd, ws, mr>>

Returned(op, agent_id, r) ==
    admin' = [op |-> op, agent_id |-> agent_id, returned |-> r]

pause_agent(agent_id) ==
    /\ IF ~InPool(agent_id)
       THEN /\ Returned("pause", agent_id, FALSE)
            /\ UNCHANGED <<paused, status>>
       ELSE /\ paused' = [paused EXCEPT ![agent_id] = TRUE]
            /\ status' = [status EXCEPT ![agent_id] = "paused"]
            /\ Returned("pause", agent_id, TRUE)
    /\ UNCHANGED <<stopped, stopAt, gate, agents, adminRest>>

resume_agent(agent_id) ==
    /\ IF ~InPool(agent_id)
       THEN /\ Returned("resume", agent_id, FALSE)
            /\ UNCHANGED <<paused, status, gate>>
       ELSE /\ paused' = [paused EXCEPT ![agent_id] = FALSE]
            /\ status' = [status EXCEPT ![agent_id] = "running"]
            /\ gate' = [gate EXCEPT ![agent_id] = FALSE]
            /\ Returned("resume", agent_id, TRUE)
    /\ UNCHANGED <<stopped, stopAt, agents, adminRest>>

delete_agent(agent_id) ==
    /\ IF ~InPool(agent_id)
       THEN /\ Returned("delete", agent_id, FALSE)
            /\ UNCHANGED <<stopped, status, gate, stopAt, agents>>
       ELSE /\ stopped' = [stopped EXCEPT ![agent_id] = TRUE]
            /\ status' = [status EXCEPT ![agent_id] = "stopped"]
            /\ gate' = [gate EXCEPT ![agent_id] = FALSE]
            /\ stopAt' = [stopAt EXCEPT
                             ![agent_id] = IF @ = "none" THEN pc[agent_id] ELSE @]
            /\ agents' = agents \ {agent_id}
            /\ Returned("delete", agent_id, TRUE)
    /\ UNCHANGED <<paused, adminRest>>

(***************************************************************************)
(* QueueDistributor                                                        *)
(***************************************************************************)
\* instruction texts, as word lists
runScan == <<"RUN", "nmap", "T">>
runDirs == <<"RUN", "gobuster", "T">>
noRun   == <<"echo", "T">>
InstructionTexts == {runDirs, noRun}

\* batches, as the lists of their values, and the lists handed to
\* distribute_to_agents
BatchLists ==
    {<<<<>>>>, <<<<runScan, noRun, runDirs>>, <<runScan>>>>}
AgentIdLists == {<<"a1", "a2">>, <<"a2", "a1">>}

\* {"key": "1", "command": cmd}
Instruction(cmd) == [key |-> "1", command |-> cmd]

\* the queue of the agent, empty where the dict has no such key
QueueOf(q, agent_id) ==
    IF agent_id \in DOMAIN q THEN q[agent_id] ELSE <<>>

\* the dict with the queue of agent_id set
WithQueue(q, agent_id, queue) ==
    [a \in DOMAIN q \cup {agent_id} |-> IF a = agent_id THEN queue ELSE q[a]]

\* the instructions of a batch: its values that start with RUN, in order
BatchCommands(batch) ==
    LET runs == SelectSeq(batch, LAMBDA cmd : cmd[1] = "RUN")
    IN  [i \in 1..Len(runs) |-> Instruction(runs[i])]

RECURSIVE DistributeFrom(_, _, _, _)
\* the loop of distribute_to_agents from position idx (counted from 1) on
DistributeFrom(d, batches, agent_ids, idx) ==
    IF idx > Len(agent_ids) THEN d
    ELSE IF idx > Len(batches)
    THEN DistributeFrom(d, batches, agent_ids, idx + 1)
    ELSE LET agent_id == agent_ids[idx]
             commands == BatchCommands(batches[idx])
             queue == QueueOf(d.agent_queues, agent_id) \o commands
         IN  DistributeFrom(
                 [d EXCEPT !.agent_queues = WithQueue(@, agent_id, queue),
                           !.added[agent_id] = @ \o commands],
                 batches, agent_ids, idx + 1)

\* no queue of the distributor d has had more than MaxQueued additions
WithinQueued(d) == \A a \in QueueIds : Len(d.added[a]) <= MaxQueued

distribute_to_agents ==
    /\ \E batches \in BatchLists, agent_ids \in AgentIdLists :
          LET d == DistributeFrom(qd, batches, agent_ids, 1)
          IN  /\ WithinQueued(d)
              /\ qd' = d
    /\ UNCHANGED <<coreVars, shared_findings, poolVars, ws, mr>>

add_instruction(agent_id) ==
    /\ \E command \in InstructionTexts :
          LET queue == Append(QueueOf(qd.agent_queues, agent_id),
                              Instruction(command))
              d == [qd EXCEPT !.agent_queues = WithQueue(@, agent_id, queue),
                              !.added[agent_id] =
                                  Append(@, Instruction(command))]
          IN  /\ WithinQueued(d)
              /\ qd' = d
    /\ UNCHANGED <<coreVars, shared_findings, poolVars, ws, mr>>

\* popping at the tail: list.pop()
PopIndexLast(queue) == Len(queue)

\* the position list.pop(0) takes
PopIndex(queue) == 1

\* the list without its element at position i
Without(queue, i) ==
    SubSeq(queue, 1, i - 1) \o SubSeq(queue, i + 1, Len(queue))

pop_agent_instruction(agent_id) ==
    LET q == qd.agent_queues
    IN
    /\ IF agent_id \in DOMAIN q /\ q[agent_id] # <<>>
       THEN LET i == PopIndex(q[agent_id])
                q2 == [q EXCEPT ![agent_id] = Without(@, i)]
            IN  qd' = [qd EXCEPT
                          !.agent_queues = q2,
                          !.popped[agent_id] = Append(@, q[agent_id][i]),
                          !.ret = [agent_id |-> agent_id,
                                   value |-> q[agent_id][i],
                                   was_empty |-> FALSE, same |-> q2 = q]]
       ELSE qd' = [qd EXCEPT
                      !.ret = [agent_id |-> agent_id, value |-> NoInstruction,
                               was_empty |-> TRUE, same |-> TRUE]]
    /\ UNCHANGED <<coreVars, shared_findings, poolVars, ws, mr>>

(***************************************************************************)
(* ModelRouter._generate_openrouter                                        *)
(***************************************************************************)
\* how a call ends: the key is refused before anything is sent; the answer
\* is returned; the response has a status other than 200; the request times
\* out or cannot connect; the answer has no choices or no content
RouterOutcomes ==
    {"bad_key", "ok", "http_error", "timeout", "connect_error",
     "invalid_response"}

\* the calls that end by raising
RouterFailures == RouterOutcomes \ {"ok"}

\* the error counter after a call with that outcome: the exception raised
\* for a status other than 200 is raised inside the try block and counted
\* again by its last handler
errors_after(errors, outcome) ==
    CASE outcome \in {"bad_key", "ok"} -> errors
      [] outcome = "http_error" -> errors + 2
      [] OTHER -> errors + 1

generate_openrouter ==
    /\ mr.request_count < MaxRequests
    /\ \E outcome \in RouterOutcomes :
          mr' = [request_count |->
                    IF outcome = "bad_key" THEN mr.request_count
                    ELSE mr.request_count + 1,
                 error_count |-> errors_after(mr.error_count, outcome),
                 outcome |-> outcome,
                 requests_before |-> mr.request_count,
                 errors_before |-> mr.error_count]
    /\ UNCHANGED <<coreVars, shared_findings, poolVars, qd, ws>>

(***************************************************************************)
(* ConnectionManager of the websocket endpoint and its broadcast loops     *)
(***************************************************************************)
\* task.done()
TaskDone(m, t) == m.tasks[t].at = "ended"

\* the task exists and has not ended
Alive(m, t) == m.tasks[t].at \in {"start", "sending", "sleep"}

\* task.cancel(): the request waits until the task is resumed
CancelTask(m, t) ==
    [m EXCEPT !.tasks[t].cancel = TRUE, !.tasks[t].cancelled = TRUE]

\* `if task and not task.done(): task.cancel()`
CancelIfRunning(m, t) ==
    IF t # 0 /\ ~TaskDone(m, t) THEN CancelTask(m, t) ELSE m

\* a stop that forgets the tasks without cancelling them
stop_broadcast_tasks_forgets(m) ==
    [m EXCEPT !.running = FALSE, !.broadcast_task = 0,
              !.history_broadcast_task = 0]

stop_broadcast_tasks(m) ==
    [CancelIfRunning(CancelIfRunning(m, m.broadcast_task),
                     m.history_broadcast_task)
        EXCEPT !.running = FALSE, !.broadcast_task = 0,
               !.history_broadcast_task = 0]

disconnect(m, websocket) ==
    LET left == [m EXCEPT !.active_connections = @ \ {websocket}]
    IN  IF left.active_connections = {} THEN stop_broadcast_tasks(left)
        ELSE left

\* asyncio.create_task of the loop of that kind
CreateTask(m, kind) ==
    [m EXCEPT !.tasks[m.made + 1] =
                  [kind |-> kind, at |-> "start", cancel |-> FALSE,
                   cancelled |-> FALSE],
              !.made = @ + 1]

start_broadcast_task(m) ==
    IF m.running THEN m
    ELSE LET on == [m EXCEPT !.running = TRUE]
             a == IF on.broadcast_task = 0 \/ TaskDone(on, on.broadcast_task)
                  THEN [CreateTask(on, "agent") EXCEPT
                           !.broadcast_task = on.made + 1]
                  ELSE on
         IN  IF a.history_broadcast_task = 0
                   \/ TaskDone(a, a.history_broadcast_task)
             THEN [CreateTask(a, "history") EXCEPT
                      !.history_broadcast_task = a.made + 1]
             ELSE a

wsRest == <<coreVars, shared_findings, poolVars, qd, mr>>

\* the endpoint accepts a client: connect, then start_broadcast_task
Connect(c) ==
    /\ c \notin ws.active_connections
    /\ ws.running \/ ws.made + 2 <= MaxTasks
    /\ ws' = start_broadcast_task(
                 [ws EXCEPT !.active_connections = @ \cup {c}])
    /\ UNCHANGED wsRest

\* the endpoint sees the client leave, or a send to it alone fail:
\* disconnect, also for a client dropped before
Disconnect(c) ==
    /\ ws' = disconnect(ws, c)
    /\ UNCHANGED wsRest

\* a loop task is resumed at its start or from its sleep: a waiting
\* cancellation ends it; else the while condition, and with clients a
\* broadcast that suspends in send_json (the history loop only when the
\* history changed)
TaskRuns(t) ==
    /\ ws.tasks[t].at \in {"start", "sleep"}
    /\ \E changed \in BOOLEAN :
          ws' = [ws EXCEPT !.tasks[t] =
                    IF @.cancel THEN [@ EXCEPT !.at = "ended", !.cancel = FALSE]
                    ELSE IF ~ws.running THEN [@ EXCEPT !.at = "ended"]
                    ELSE IF ws.active_connections # {}
                            /\ (@.kind = "agent" \/ changed)
                    THEN [@ EXCEPT !.at = "sending"]
                    ELSE [@ EXCEPT !.at = "sleep"]]
    /\ UNCHANGED wsRest

RECURSIVE DisconnectAll(_, _)
\* `for conn in dead_connections: self.disconnect(conn)`
DisconnectAll(m, dead) ==
    IF dead = {} THEN m
    ELSE LET conn == CHOOSE x \in dead : TRUE
         IN  DisconnectAll(disconnect(m, conn), dead \ {conn})

\* the task is resumed in the send_json of broadcast: the bare except takes
\* whatever is raised there, a waiting cancellation included; the
\* connections whose send raised are disconnected and the loop sleeps
TaskSent(t) ==
    /\ ws.tasks[t].at = "sending"
    /\ \E dead \in SUBSET Clients :
          /\ ws.tasks[t].cancel => dead # {}
          /\ ws' = [DisconnectAll([ws EXCEPT !.tasks[t].cancel = FALSE], dead)
                       EXCEPT !.tasks[t].at = "sleep"]
    /\ UNCHANGED wsRest

(***************************************************************************)
(* Findings: _classify_severity, _save_findings_with_sharing and the       *)
(* manager's get_findings / get_severity_summary. A text is the sequence   *)
(* of its characters.                                                      *)
(***************************************************************************)
UpperCase ==
    <<"A", "B", "C", "D", "E", "F", "G", "H", "I", "J", "K", "L", "M", "N",
      "O", "P", "Q", "R", "S", "T", "U", "V", "W", "X", "Y", "Z">>
LowerCase ==
    <<"a", "b", "c", "d", "e", "f", "g", "h", "i", "j", "k", "l", "m", "n",
      "o", "p", "q", "r", "s", "t", "u", "v", "w", "x", "y", "z">>

\* str.lower()
LowerCased(text) ==
    [i \in 1..Len(text) |->
        IF \E k \in 1..Len(UpperCase) : UpperCase[k] = text[i]
        THEN LowerCase[CHOOSE k \in 1..Len(UpperCase) : UpperCase[k] = text[i]]
        ELSE text[i]]

\* kw in text
Contains(text, kw) ==
    \E i \in 0..(Len(text) - Len(kw)) : SubSeq(text, i + 1, i + Len(kw)) = kw

critical_keywords ==
    <<<<"c", "r", "i", "t", "i", "c", "a", "l">>,
      <<"r", "e", "m", "o", "t", "e", " ", "c", "o", "d", "e", " ", "e", "x", "e", "c", "u", "t", "i", "o", "n">>,
      <<"r", "c", "e">>,
      <<"s", "q", "l", " ", "i", "n", "j", "e", "c", "t", "i", "o", "n">>,
      <<"a", "u", "t", "h", "e", "n", "t", "i", "c", "a", "t", "i", "o", "n", " ", "b", "y", "p", "a", "s", "s">>>>
high_keywords ==
    <<<<"h", "i", "g", "h">>,
      <<"v", "u", "l", "n", "e", "r", "a", "b", "i", "l", "i", "t", "y">>,
      <<"e", "x", "p", "l", "o", "i", "t">>,
      <<"e", "x", "p", "o", "s", "e", "d">>,
      <<"s", "e", "n", "s", "i", "t", "i", "v", "e">>>>
medium_keywords ==
    <<<<"m", "e", "d", "i", "u", "m">>,
      <<"m", "i", "s", "c", "o", "n", "f", "i", "g", "u", "r", "a", "t", "i", "o", "n">>,
      <<"w", "e", "a", "k">>, <<"o", "u", "t", "d", "a", "t", "e", "d">>>>
low_keywords ==
    <<<<"l", "o", "w">>,
      <<"i", "n", "f", "o", "r", "m", "a", "t", "i", "o", "n", " ", "d", "i", "s", "c", "l", "o", "s", "u", "r", "e">>,
      <<"w", "a", "r", "n", "i", "n", "g">>>>

\* any(kw in finding_lower for kw in keywords)
AnyIn(keywords, finding_lower) ==
    \E k \in 1..Len(keywords) : Contains(finding_lower, keywords[k])

\* a classification that looks at the low keywords first
classify_severity_low_first(finding) ==
    LET finding_lower == LowerCased(finding)
    IN  IF AnyIn(low_keywords, finding_lower) THEN "Low"
        ELSE IF AnyIn(critical_keywords, finding_lower) THEN "Critical"
        ELSE IF AnyIn(high_keywords, finding_lower) THEN "High"
        ELSE IF AnyIn(medium_keywords, finding_lower) THEN "Medium"
        ELSE "Info"

classify_severity(finding) ==
    LET finding_lower == LowerCased(finding)
    IN  IF AnyIn(critical_keywords, finding_lower) THEN "Critical"
        ELSE IF AnyIn(high_keywords, finding_lower) THEN "High"
        ELSE IF AnyIn(medium_keywords, finding_lower) THEN "Medium"
        ELSE IF AnyIn(low_keywords, finding_lower) THEN "Low"
        ELSE "Info"

\* finding texts of an oracle response
findRceLow ==
    <<"R", "C", "E", ",", " ", "l", "o", "w", " ", "e", "f", "f", "o", "r",
      "t">>
findHighWeak ==
    <<"H", "i", "g", "h", ":", " ", "w", "e", "a", "k", " ", "T", "L", "S">>
findOutdated ==
    <<"O", "u", "t", "d", "a", "t", "e", "d", " ", "n", "g", "i", "n", "x">>
findFollow == <<"F", "o", "l", "l", "o", "w", " ", "u", "p">>
findSource ==
    <<"S", "o", "u", "r", "c", "e", " ", "e", "x", "p", "o", "s", "e", "d">>
findPort == <<"o", "p", "e", "n", " ", "p", "o", "r", "t", " ", "2", "2">>
findWarnWeak ==
    <<"W", "a", "r", "n", "i", "n", "g", ":", " ", "w", "e", "a", "k", " ",
      "k", "e", "y">>
findEmpty == <<>>
FindingTexts ==
    {findRceLow, findHighWeak, findOutdated, findFollow, findSource,
     findPort, findWarnWeak, findEmpty}

\* a record that carries no class of the summary
finding_data_unclassified(w, finding) ==
    [agent_id |-> w, content |-> finding, severity |-> "unknown"]

\* the record appended to shared_knowledge["findings"]
finding_data(w, finding) ==
    [agent_id |-> w, content |-> finding,
     severity |-> classify_severity(finding)]

\* one finding of a response of worker w is saved
SaveFinding(w) ==
    /\ Len(shared_findings) < MaxFindings
    /\ \E finding \in FindingTexts :
          shared_findings' = Append(shared_findings, finding_data(w, finding))
    /\ UNCHANGED <<coreVars, poolVars, qd, ws, mr>>

get_findings == shared_findings

Severities == {"Critical", "High", "Medium", "Low", "Info"}

\* the counts per severity; a record without severity counts as Info, one
\* with a severity outside the five is not counted
get_severity_summary ==
    [s \in Severities |->
        Cardinality({i \in 1..Len(shared_findings) :
                        shared_findings[i].severity = s})]

(***************************************************************************)
(* AgentManager.start_operation                                            *)
(***************************************************************************)
\* start() of the worker is over: it returned, or raised
Finished == {"returned", "raised"}

\* the coroutines of the listed workers are handed to asyncio.gather
StartOperation ==
    /\ op_pc = "idle"
    /\ \E ids \in SUBSET Workers :
          /\ ids # {}
          /\ op_agents' = ids
    /\ operation_active' = TRUE
    /\ op_pc' = "gather"
    /\ UNCHANGED <<workerVars, claims, histVars, shareVars, rateVars, moreVars>>

\* the event loop runs the start() of a gathered worker
GatheredStart(w) ==
    /\ op_pc = "gather"
    /\ w \in op_agents
    /\ Start(w)

\* an awaited call of start() outside its try block raises
\* (_initialize_systems, the logger, the status broadcast)
StartRaises(w) ==
    /\ pc[w] = "init"
    /\ pc' = [pc EXCEPT ![w] = "raised"]
    /\ UNCHANGED <<target, status, paused, stopped, iteration, pending,
                   execution_history, claims, histVars, serviceVars>>

\* a gather that hands on the first exception (return_exceptions=False)
GatherDoneOrRaised ==
    /\ op_pc = "gather"
    /\ \/ \A w \in op_agents : pc[w] \in Finished
       \/ \E w \in op_agents : pc[w] = "raised"
    /\ op_pc' = "report"
    /\ UNCHANGED <<workerVars, claims, histVars, shareVars, operation_active,
                   op_agents, rateVars, moreVars>>

\* asyncio.gather(*tasks, return_exceptions=True) returned
GatherDone ==
    /\ op_pc = "gather"
    /\ \A w \in op_agents : pc[w] \in Finished
    /\ op_pc' = "report"
    /\ UNCHANGED <<workerVars, claims, histVars, shareVars, operation_active,
                   op_agents, rateVars, moreVars>>

\* generate_report() returned: the operation is over
OperationDone ==
    /\ op_pc = "report"
    /\ operation_active' = FALSE
    /\ op_pc' = "done"
    /\ UNCHANGED <<workerVars, claims, histVars, shareVars, op_agents, rateVars,
                   moreVars>>

(***************************************************************************)
(* Specification                                                           *)
(***************************************************************************)
\* what the users of the pool may do to a worker at any time
UserStep(w) ==
    \/ Pause(w)
    \/ Resume(w)
    \/ Stop(w)

\* one step of a start() that was called, outside the pause wait
FreeStep(w) ==
    \/ StartLoop(w)
    \/ LoopTop(w)
    \/ ThrottlePauseDone(w)
    \/ ThrottleDelayDone(w)
    \/ RateWaitDone(w)
    \/ OracleFail(w)
    \/ CooldownDone(w)
    \/ BackoffDone(w)
    \/ DelayDone(w)
    \/ CmdAvailable(w)
    \/ CmdClaim(w)
    \/ CmdBlocked(w)
    \/ CmdExecDone(w)
    \/ CmdComplete(w)
    \/ LoopExit(w)

\* one step of a start() that was called
RunStep(w) == PauseWait(w) \/ FreeStep(w)

\* one step of start() of a worker, the answers of the oracle apart
LoopStep(w) == Start(w) \/ RunStep(w)

\* one step of start() of a worker
WorkerStep(w) == LoopStep(w) \/ OracleOk(w)

\* the whole pool
Next == \E w \in Workers : UserStep(w) \/ WorkerStep(w)

Spec == Init /\ [][Next]_vars

\* one started worker under every sequence of pause()/resume()/stop() calls
LifeWorkers == {"a1"}

LifeNext == \E w \in LifeWorkers : UserStep(w) \/ WorkerStep(w)

SpecLife == Init /\ [][LifeNext]_vars

\* the same, with the event loop resuming every suspended start() in the end:
\* every sleep and every awaited call returns
SpecLifeFair == SpecLife /\ \A w \in LifeWorkers : WF_vars(WorkerStep(w))

\* all workers of the pool running their loops, no lifecycle call made (the
\* pause wait is never entered)
PoolNext == \E w \in Workers : Start(w) \/ FreeStep(w) \/ OracleOkPool(w)

SpecPool == Init /\ [][PoolNext]_vars

\* the pool, the steps of a claimed command failing at any time
CrashNext ==
    \E w \in Workers :
        Start(w) \/ FreeStep(w) \/ OracleOkPool(w) \/ CmdStepRaises(w)

SpecCrash == Init /\ [][CrashNext]_vars

\* one worker under the lifecycle calls, its oracle proposing any command
SafetyNext ==
    \E w \in LifeWorkers : UserStep(w) \/ LoopStep(w) \/ OracleOkAny(w)

SpecSafety == Init /\ [][SafetyNext]_vars

\* one worker under the lifecycle calls, its oracle proposing commands of two
\* tools
LogNext ==
    \E w \in LifeWorkers : UserStep(w) \/ LoopStep(w) \/ OracleOkWide(w)

SpecLog == Init /\ [][LogNext]_vars

\* one operation of the manager over workers of the pool, no lifecycle call
\* made
OperationNext ==
    \/ StartOperation
    \/ \E w \in Workers :
          \/ GatheredStart(w)
          \/ StartRaises(w)
          \/ FreeStep(w)
          \/ OracleOkPool(w)
    \/ GatherDone
    \/ OperationDone

SpecOperation == Init /\ [][OperationNext]_vars

\* the rate limiter under any sequence of calls of its users
LimiterNext ==
    \/ Acquire
    \/ RecordSuccess
    \/ RateLimitError
    \/ Advance

SpecLimiter == Init /\ [][LimiterNext]_vars

\* the workers of the pool at the rate limiter of their model
RateNext ==
    \/ \E w \in Workers :
          \/ Start(w)
          \/ StartLoop(w)
          \/ TimedAcquire(w)
          \/ TimedRateWaitDone(w)
          \/ TimedOracleOk(w)
          \/ TimedRateLimited(w)
          \/ TimedCooldownDone(w)
          \/ LoopExit(w)
    \/ SleepPasses

SpecRate == Init /\ [][RateNext]_vars

\* the mailbox of a worker under any sequence of arrivals and user messages
MailNext == \E w \in LifeWorkers : Deliver(w) \/ BuildUserMessage(w)

SpecMail == Init /\ [][MailNext]_vars

\* one worker running its loop while messages of the team arrive
InboxNext ==
    \E w \in LifeWorkers :
        Start(w) \/ FreeStep(w) \/ OracleOkPool(w) \/ Deliver(w)

SpecInbox == Init /\ [][InboxNext]_vars

\* the agent API of the manager called with any id, pooled or not
AdminNext ==
    \/ StartRequest
    \/ \E agent_id \in AdminIds :
          \/ pause_agent(agent_id)
          \/ resume_agent(agent_id)
          \/ delete_agent(agent_id)

SpecAdmin == Init /\ [][AdminNext]_vars

\* the server under start and create requests, the operations of the start
\* requests running as background tasks
ServerNext ==
    \/ StartRequest
    \/ CreateAgentRequest
    \/ \E o \in Ops :
          \/ OpBegin(o)
          \/ OpGathered(o)
          \/ OpDone(o)
          \/ OpReportRaises(o)

SpecServer == Init /\ [][ServerNext]_vars

\* the queue distributor under any sequence of calls
QueueNext ==
    \/ distribute_to_agents
    \/ \E agent_id \in Workers : add_instruction(agent_id)
    \/ \E agent_id \in QueueIds : pop_agent_instruction(agent_id)

SpecQueue == Init /\ [][QueueNext]_vars

\* the model router under any sequence of calls and outcomes
RouterNext == generate_openrouter

SpecRouter == Init /\ [][RouterNext]_vars

\* the websocket endpoint: clients coming and going, sends failing, and the
\* event loop resuming the broadcast tasks
SocketNext ==
    \/ \E c \in Clients : Connect(c) \/ Disconnect(c)
    \/ \E t \in TaskIdsWs : TaskRuns(t) \/ TaskSent(t)

SpecSocket == Init /\ [][SocketNext]_vars

\* the workers saving the findings of their responses
FindingsNext == \E w \in Workers : SaveFinding(w)

SpecFindings == Init /\ [][FindingsNext]_vars

\* the sandboxes of the workers under any sequence of outcomes
ExecutorNext == \E w \in Workers : Execute(w)

SpecExecutor == Init /\ [][ExecutorNext]_vars

\* the throttler under any sequence of samples
ThrottleNext == \E w \in Workers : CheckAndThrottle(w)

SpecThrottle == Init /\ [][ThrottleNext]_vars

\* the workers of the pool sharing what the outputs of their commands show
ShareNext ==
    \E w \in Workers :
        \/ ExtractDiscoveries(w)
        \/ InsertMatch(w)
        \/ ShareDiscovery(w)

SpecShare == Init /\ [][ShareNext]_vars

(***************************************************************************)
(* Claims                                                                  *)
(***************************************************************************)
\* the history entries of all workers whose command has task id t
HistoryEntries(t) ==
    {e \in UNION {{<<w, i>> : i \in DOMAIN execution_history[w]} : w \in Workers} :
        TaskId(target[e[1]], execution_history[e[1]][e[2]]) = t}

\* C1: for every task fingerprint at most one claim_task call ever returns
\* True, and as soon as any claim_task call for it has returned, exactly one
\* has returned True: two workers racing on it never both win.
C1_ExclusiveClaim ==
    \A t \in TaskIds :
        /\ claimWins[t] <= 1
        /\ (claimLost[t] \/ claims[t].state # "available") => claimWins[t] = 1

\* two workers raced: one holds the claim, not yet completed, the other's
\* claim_task call returned False
C1_Witness ==
    \E t \in TaskIds :
        claimLost[t] /\ claimWins[t] = 1 /\ claims[t].state = "claimed"

\* C2: a task fingerprint is handed to the sandbox at most once in total and
\* has at most one execution_history entry over all workers, exactly one once
\* its command was run and the claim completed; the losers of the claim skip.
C2_ExecutedOnce ==
    \A t \in TaskIds :
        /\ sandboxRuns[t] <= 1
        /\ Cardinality(HistoryEntries(t)) <= 1
        /\ (claims[t].state = "completed" /\ claims[t].result = "command")
              => (sandboxRuns[t] = 1 /\ Cardinality(HistoryEntries(t)) = 1)

\* both workers proposed the fingerprint, one lost the claim, and the
\* command has run and is completed
C2_Witness ==
    \E t \in TaskIds :
        /\ claimLost[t]
        /\ claims[t].state = "completed" /\ claims[t].result = "command"
        /\ Cardinality(HistoryEntries(t)) = 1

\* the statuses the lifecycle calls terminal
Terminal == {"completed", "error", "stopped"}

\* the waits of the loop
Waits == {"pause_wait", "throttle_pause", "throttle_delay", "rate_wait",
          "cooldown", "backoff", "delay"}

\* C3: a worker that stop() reached in the pause wait has final status
\* `stopped` when start() has returned.
C3_StopMidPauseEndsStopped ==
    \A w \in Workers :
        (stopAt[w] = "pause_wait" /\ pc[w] = "returned") => status[w] = "stopped"

\* C4: an oracle error whose text contains "401" and "Unauthorized" leaves
\* the worker with status `error` when start() has returned.
C4_UnauthorizedEndsError ==
    \A w \in Workers :
        ( /\ pc[w] = "returned"
          /\ lastError[w].failed
          /\ lastError[w].text.c401 /\ lastError[w].text.unauth )
        => status[w] = "error"

Has429(w) == lastError[w].failed /\ lastError[w].text.c429

\* C5 as stated: after an error containing "429" the worker makes a further
\* oracle call, so a worker nobody stopped never ends on such an error.
C5_RateLimitThenAnotherCall ==
    \A w \in Workers :
        (pc[w] = "returned" /\ ~stopped[w]) => ~Has429(w)

\* C5 amended: an error containing "429" sends the worker into the cooldown
\* without touching its status, the cooldown leads back to the head of the
\* loop, and the loop ends right after such an error only if stop() was
\* called or the iteration cap is reached.
C5_RateLimitNotFatal ==
    [][\A w \in Workers :
          /\ (pc[w] = "oracle" /\ pc'[w] # "oracle" /\ Has429(w)')
                => (pc'[w] = "cooldown" /\ status'[w] = status[w])
          /\ (pc[w] = "cooldown" /\ pc'[w] # "cooldown")
                => (pc'[w] = "loop_top" /\ status'[w] = status[w])
          /\ (Has429(w)' /\ pc'[w] = "loop_exit")
                => (stopped'[w] \/ iteration'[w] >= max_iterations)
      ]_vars

\* after the cooldown of a 429 the worker is back at the head of the loop
\* with an iteration left
C5_Witness ==
    \E w \in Workers :
        /\ pc[w] = "loop_top" /\ Has429(w)
        /\ iteration[w] + 1 < max_iterations
        /\ ~stopped[w] /\ ~paused[w] /\ status[w] = "running"

\* C6 (terminal statuses, loop steps): once the status of a worker inside
\* its loop is completed, error or stopped, no later step of the loop changes
\* it.
C6_TerminalIsFinal ==
    [][\A w \in Workers :
          (pc[w] \notin {"new", "init"} /\ status[w] \in Terminal /\ pc'[w] # pc[w])
              => status'[w] = status[w]
      ]_vars

\* C7: a worker that stop() reached in one of the waits of the loop starts
\* no oracle call and no sandbox execution afterwards.
C7_StopInWaitStartsNothing ==
    [][\A w \in Workers :
          (stopped[w] /\ stopAt[w] \in Waits)
              => (oracleCalls'[w] = oracleCalls[w] /\ sandboxRuns' = sandboxRuns)
      ]_vars

\* C8: while a pause was observed at the loop-top check and neither resume()
\* nor stop() has been called since, the worker sits in the pause wait (it
\* calls no oracle and runs no command); and a pause() that arrives during
\* an oracle call or a sandbox execution leaves that call able to finish.
C8_PauseGatesLoopBody ==
    \A w \in Workers :
        /\ gate[w] => (pc[w] = "pause_wait" /\ paused[w] /\ ~stopped[w])
        /\ (paused[w] /\ pc[w] = "oracle") => ENABLED OracleOk(w)
        /\ (paused[w] /\ pc[w] = "cmd_exec") => ENABLED CmdExecDone(w)

\* a pause that arrived while a command was running is observed at the next
\* loop-top check, after the command was executed and recorded
C8_Witness ==
    \E w \in Workers :
        gate[w] /\ oracleCalls[w] >= 1 /\ Len(execution_history[w]) >= 1

\* C9: a worker makes at most max_iterations oracle calls in a run, and one
\* that leaves the loop at the cap without stop() and without a fatal error
\* returns with status `completed`.
C9_CapEndsCompleted ==
    [][\A w \in Workers :
          /\ oracleCalls'[w] <= max_iterations
          /\ ( /\ pc[w] = "loop_exit" /\ pc'[w] = "returned"
               /\ iteration[w] >= max_iterations
               /\ ~stopped[w] )
             => status'[w] = "completed"
      ]_vars

C9_Witness ==
    \E w \in Workers :
        /\ pc[w] = "returned" /\ iteration[w] = max_iterations
        /\ oracleCalls[w] = max_iterations - 1
        /\ ~stopped[w] /\ ~lastError[w].failed /\ status[w] = "completed"

\* C10: every oracle attempt, failed or not, has consumed an iteration, the
\* iteration counter never passes the cap, and with the cap reached the
\* worker is out of the loop: failures cannot make it retry forever.
C10_FailuresConsumeIterations ==
    \A w \in Workers :
        /\ oracleCalls[w] <= iteration[w]
        /\ iteration[w] <= max_iterations
        /\ iteration[w] = max_iterations => pc[w] \in {"loop_exit", "returned"}

\* a worker whose oracle calls all failed, not stopped, has left the loop
C10_Witness ==
    \E w \in Workers :
        /\ pc[w] = "returned" /\ ~stopped[w] /\ ~paused[w]
        /\ iteration[w] = max_iterations
        /\ lastError[w].failed /\ ~Has429(w)

\* C11: a started worker with a target that the user never pauses and never
\* stops reaches a terminal status in the end, whatever the throttler
\* answers (also should_pause = true at every check).
C11_CapBoundsForcedPauses ==
    \A w \in LifeWorkers :
        target[w] # "" =>
            <>(paused[w] \/ stopped[w]
                  \/ (pc[w] = "returned" /\ status[w] \in Terminal))

\* C12: a worker without a target never gets past start(): it is never at a
\* point of the loop (no throttle check, no oracle call, no claim, no command
\* run), and start() returns with status `idle`.
C12_NoTargetStandsBy ==
    [][\A w \in Workers :
          target[w] = "" =>
              /\ pc'[w] \in {"new", "init", "returned"}
              /\ iteration'[w] = 0 /\ oracleCalls'[w] = 0
              /\ pending'[w] = <<>> /\ execution_history'[w] = <<>>
              /\ \A t \in TaskIds : claims'[t].claimed_by # w
              /\ (pc[w] = "init" /\ pc'[w] = "returned") => status'[w] = "idle"
      ]_vars

\* start() of a worker without a target has returned, in standby
C12_Witness ==
    \E w \in Workers :
        target[w] = "" /\ pc[w] = "returned" /\ status[w] = "idle"

\* the last oracle call of w failed with an error that is neither a
\* rate-limit error nor an authentication error
OtherError(w) ==
    /\ lastError[w].failed
    /\ ~IsRateLimitError(lastError[w].text)
    /\ ~IsAuthError(lastError[w].text)

\* C13: an oracle error that is neither a rate-limit nor an authentication
\* error is recorded as a failed request and sends the worker into the fixed
\* backoff with its status untouched (never `error`); the backoff leads back
\* to the head of the loop, never out of it.
C13_OtherErrorsBackOff ==
    [][\A w \in Workers :
          /\ (pc[w] = "oracle" /\ pc'[w] # "oracle" /\ OtherError(w)')
                => /\ pc'[w] = "backoff"
                   /\ status'[w] = status[w]
                   /\ lastError'[w].recorded
          /\ (pc[w] = "backoff" /\ pc'[w] # "backoff")
                => (pc'[w] = "loop_top" /\ status'[w] = status[w])
          /\ (OtherError(w)' /\ pc'[w] = "loop_exit")
                => (stopped'[w] \/ iteration'[w] >= max_iterations)
      ]_vars

\* after a timeout and its backoff the worker is back at the head of the
\* loop, running, with an iteration left
C13_Witness ==
    \E w \in Workers :
        /\ pc[w] = "loop_top" /\ OtherError(w) /\ lastError[w].recorded
        /\ iteration[w] + 1 < max_iterations
        /\ ~stopped[w] /\ ~paused[w] /\ status[w] = "running"

\* how often the fact is listed in the summary of the target
Listed(tgt, f) ==
    Cardinality({i \in DOMAIN get_target_summary(tgt)[KbField(f)] :
                    get_target_summary(tgt)[KbField(f)][i] = f})

\* C14: for every port fact of a target, whichever workers insert it and in
\* whatever order, the first add_port returns true, no later one does, and
\* the summary of the target lists the port exactly once.
C14_IdempotentInsert ==
    \A f \in PortLines :
        /\ addFirst[f] # "false"
        /\ newAdds[f] <= 1
        /\ addFirst[f] = "true" => (newAdds[f] = 1 /\ Listed("T", f) = 1)
        /\ addFirst[f] = "none" => Listed("T", f) = 0

\* a port was inserted twice, the second time without effect
C14_Witness ==
    \E f \in PortLines :
        addFirst[f] = "true" /\ addAgain[f] /\ newAdds[f] = 1 /\ Listed("T", f) = 1

\* C15: every fact extracted from a command output, port, path or subdomain,
\* is broadcast as a discovery exactly when its insert reported it as new:
\* once for the first insert (still to come while the worker is between the
\* insert and the broadcast), never for a later one.
C15_NewFactsAreBroadcast ==
    \A f \in Lines :
        shared[f] + Cardinality({w \in Workers : shAdded[w] = f}) = newAdds[f]

\* the commands a safety predicate rejects
Rejected == {c \in AllCommands : is_dangerous_command(c) \/ ~is_tool_allowed(c)}

\* C16: a command that is dangerous or whose tool is not allowed is never
\* handed to the sandbox executor and never appended to execution_history:
\* whatever runs or is recorded passes both predicates.
C16_RejectedNeverRuns ==
    \A w \in Workers :
        /\ \A i \in DOMAIN execution_history[w] :
              execution_history[w][i] \notin Rejected
        /\ pc[w] \in {"cmd_exec", "cmd_complete"} => Head(pending[w]) \notin Rejected
        /\ \A c \in Rejected : sandboxRuns[TaskId("T", c)] = 0

\* the worker was proposed an allowed tool chained with a forbidden pattern,
\* blocked it, and ran a safe command
C16_Witness ==
    /\ claims[TaskId("T", cmdChain)].result = "blocked"
    /\ sandboxRuns[TaskId("T", cmdChain)] = 0
    /\ \E w \in Workers : Len(execution_history[w]) >= 1

\* C17: start_operation starts every listed worker (while it gathers, the
\* start() of each is ready to run or running), goes on only when the start()
\* of every listed worker is over, and a worker whose start() raised leaves
\* every sibling untouched and able to take its next step.
C17_GatherAwaitsAll ==
    /\ op_pc \in {"report", "done"} => \A w \in op_agents : pc[w] \in Finished
    /\ op_pc = "gather" =>
          \A w \in op_agents : pc[w] = "new" => ENABLED GatheredStart(w)
    /\ \A w \in op_agents :
          pc[w] \notin Finished \cup {"new"}
          => /\ op_pc = "gather"
             /\ ENABLED (FreeStep(w) \/ OracleOkPool(w))

\* the operation is over: one worker raised in start(), its sibling ran
\* commands in its loop and returned
C17_Witness ==
    /\ op_pc = "done" /\ ~operation_active
    /\ \E w, v \in op_agents :
          /\ pc[w] = "raised"
          /\ pc[v] = "returned" /\ Len(execution_history[v]) >= 1

\* C18: between two successful requests every handle_rate_limit_error call
\* returns at least the cooldown_seconds of the call before it, and never
\* more than the maximum of 300 s.
C18_CooldownMonotone ==
    [][rl'.failures > rl.failures =>
          /\ coolRet' >= coolRet
          /\ coolRet' <= 300
          /\ coolRet' > 0
      ]_vars

\* the backoff has grown to the maximum
C18_Witness == coolRet = 300 /\ rl.failures >= 10

\* the tokens recorded in the WindowLen seconds that end at time t
RECURSIVE Spent(_, _)
Spent(es, t) ==
    IF es = <<>> THEN 0
    ELSE (IF t - Head(es).at < WindowLen THEN Head(es).tokens ELSE 0)
         + Spent(Tail(es), t)

HitRateLimit(w) == lastError[w].failed /\ IsRateLimitError(lastError[w].text)

C21_ThrottleHysteresis ==
    \A w \in Workers :
        LET st == thr[w]
            old == st.was[2]
            reported == throttle_result(st).throttle_level
        IN
        /\ reported = LevelName(st.level)
        /\ st.level > old =>
              /\ st.seen[1] > old /\ st.seen[2] > old
              /\ st.level <= st.seen[1] /\ st.level <= st.seen[2]
        /\ st.seen[2] < old => st.level = st.seen[2]
        /\ ~(st.was[1] > old /\ st.level > old)

\* a level reached by two samples was left again on one lower sample
C21_Witness ==
    \E w \in Workers :
        /\ thr[w].was[1] < thr[w].was[2]
        /\ thr[w].level < thr[w].was[2]
        /\ thr[w].seen[1] = thr[w].was[2]

\* C22: a task claim only moves available -> claimed -> completed, keeps its
\* one owner from the claim on, and once completed stays as it is: the task
\* is not available and claim_task returns false and changes nothing.
C22_ClaimLifecycle ==
    [][\A t \in TaskIds :
          /\ claims[t].state = "available"
                => claims'[t].state \in {"available", "claimed"}
          /\ claims[t].state = "claimed"
                => /\ claims'[t].state \in {"claimed", "completed"}
                   /\ claims'[t].claimed_by = claims[t].claimed_by
          /\ claims[t].state = "completed"
                => /\ claims'[t] = claims[t]
                   /\ ~is_task_available(t)
                   /\ \A w \in Workers :
                         ~claim_task_wins(w, t) /\ claim_task(w, t) = claims
      ]_vars

\* a worker is about to ask for a task that is completed
C22_Witness ==
    \E w \in Workers :
        /\ pc[w] = "cmd_avail"
        /\ claims[CurrentTask(w)].state = "completed"
        /\ claims[CurrentTask(w)].claimed_by # w

\* C23: a worker whose start() has finished, by returning or by raising, does
\* not have status `running`.
C23_FinishedNeverRunning ==
    \A w \in Workers : pc[w] \in Finished => status[w] # "running"

\* C24: execution_history and instruction_history of a worker each hold at
\* most MaxHistory entries.
C24_LogsBounded ==
    \A w \in Workers :
        /\ Len(instruction_history[w]) <= MaxHistory
        /\ Len(execution_history[w]) <= MaxHistory

\* the last response of the oracle to the worker held the sentinel <END!>
Ended(w) ==
    /\ instruction_history[w] # <<>>
    /\ instruction_history[w][Len(instruction_history[w])].end

\* C25: the response with the completion sentinel sets the status to
\* completed and leaves the loop in that step; from then on the worker has no
\* command pending, claims and executes nothing, and calls the oracle no more.
C25_SentinelEndsLoop ==
    [][\A w \in Workers :
          /\ (Ended(w)' /\ ~Ended(w))
                => status'[w] = "completed" /\ pc'[w] = "loop_exit"
          /\ Ended(w)
                => /\ pc[w] \in {"loop_exit", "returned"}
                   /\ pending[w] = <<>> /\ pending'[w] = <<>>
                   /\ oracleCalls'[w] = oracleCalls[w]
                   /\ execution_history'[w] = execution_history[w]
                   /\ \A t \in TaskIds :
                         claims'[t] # claims[t] => claims'[t].claimed_by # w
      ]_vars

\* a response that held the sentinel and a command ended the loop
C25_Witness ==
    \E w \in Workers :
        /\ Ended(w)
        /\ instruction_history[w][Len(instruction_history[w])].commands > 0
        /\ pc[w] = "returned"

\* C26: execute returns a text whatever the outcome, a call that failed
\* (timeout or an exception) has raised the error counter by one, and a call
\* that succeeded has set it to 0.
C26_FailuresAreCounted ==
    \A w \in Workers :
        /\ ex[w].outcome # "none"
              => ex[w].returned \in {"output", "timed_out", "execution_error"}
        /\ ex[w].outcome \in {"timeout", "raised"}
              => ex[w].error_count = ex[w].before + 1
        /\ ex[w].outcome = "exited" => ex[w].error_count = 0

\* C27: a claim in state claimed belongs to a worker that is still handling
\* the command of that task: once the worker has left its command steps, every
\* claim it won is completed.
C27_ClaimsGetCompleted ==
    \A t \in TaskIds :
        claims[t].state = "claimed"
            => /\ pc[claims[t].claimed_by] \in RaisingSteps
               /\ CurrentTask(claims[t].claimed_by) = t

\* the worker drops the command at the head of its list without running it:
\* is_task_available returned False, or claim_task did
SkippedAsDuplicate(w) ==
    /\ pc[w] \in {"cmd_avail", "cmd_claim"}
    /\ pending'[w] # pending[w]

\* C28: a command is skipped as a duplicate only if the claim of its task id
\* was won for the same command text on the same target.
C28_SkippedOnlyIfSameClaimed ==
    [][\A w \in Workers :
          SkippedAsDuplicate(w)
              => claimedCmd[CurrentTask(w)] = Head(pending[w])]_vars

\* C29: building a user message marks read exactly the messages rendered into
\* it, the first 5 in arrival order of the at most 10 unread ones fetched; a
\* message fetched without being rendered stays unread; messages are rendered
\* in arrival order, none before one that arrived earlier; a message marked
\* read was shown.
C29_ReadExactlyRendered ==
    \A w \in Workers :
        LET m == mail[w]
            n == Len(m.box)
        IN  /\ Len(m.fetched) <= FetchLimit
            /\ m.prompt = Take(m.fetched, RenderLimit)
            /\ \A i \in 1..Len(m.fetched) :
                  /\ m.box[m.fetched[i]].id = m.fetched[i]
                  /\ m.box[m.fetched[i]].read <=> i <= RenderLimit
                  /\ \A j \in 1..(i - 1) : m.fetched[j] < m.fetched[i]
            /\ \A i \in 1..n : m.box[i].read <=> m.box[i].id \in m.shown
            /\ \A i \in 1..n : \A j \in 1..(i - 1) :
                  m.box[i].id \in m.shown => m.box[j].id \in m.shown

\* more than 10 unread messages were there for one user message, and the
\* next one rendered messages that the first had fetched without rendering
C29_Witness ==
    \E w \in Workers :
        /\ Len(mail[w].box) > FetchLimit
        /\ Len(mail[w].prompt) = RenderLimit
        /\ \E i \in 1..Len(mail[w].prompt) :
              mail[w].prompt[i] \in mail[w].held

\* C30: after an oracle call that failed or was rate-limited, the messages
\* rendered into the user message of that iteration are still unread.
C30_UnansweredStayUnread ==
    \A w \in Workers :
        (lastError[w].failed /\ pc[w] \in {"cooldown", "backoff"})
            => \A i \in 1..Len(mail[w].prompt) :
                  ~mail[w].box[mail[w].prompt[i]].read

\* the except branch of the loop hands a failure of worker w to the
\* RateLimiter in this step: record_request(success=False) or
\* handle_rate_limit_error
FailureAccounted(w) ==
    /\ lastError'[w].failed
    /\ lastError'[w] # lastError[w]

\* C31: the RateLimiter is told of a failure only by the step in which the
\* oracle call itself failed, never by a later step of the iteration.
C31_FailureOnlyFromOracle ==
    [][\A w \in Workers : FailureAccounted(w) => pc[w] = "oracle"]_vars

\* the keyword lists in the order of the policy
SeverityOrder == <<"Critical", "High", "Medium", "Low">>

KeywordsOf(s) ==
    CASE s = "Critical" -> critical_keywords
      [] s = "High" -> high_keywords
      [] s = "Medium" -> medium_keywords
      [] s = "Low" -> low_keywords

\* some keyword of the class occurs in the lower-cased text
ClassMatches(s, finding) == AnyIn(KeywordsOf(s), LowerCased(finding))

\* C32: every saved finding carries exactly one of the five severities: the
\* first class, in the order Critical, High, Medium, Low, one of whose
\* keywords occurs in its text, and Info when none does.
C32_FirstMatchSeverity ==
    \A i \in 1..Len(shared_findings) :
        LET f == shared_findings[i].content
            s == shared_findings[i].severity
        IN  /\ s \in Severities
            /\ s = "Info" <=> \A k \in 1..4 : ~ClassMatches(SeverityOrder[k], f)
            /\ \A k \in 1..4 :
                  s = SeverityOrder[k]
                      <=> /\ ClassMatches(SeverityOrder[k], f)
                          /\ \A j \in 1..(k - 1) :
                                ~ClassMatches(SeverityOrder[j], f)

\* a text with a critical and a low keyword was saved as Critical, and a
\* text without keyword as Info
C32_Witness ==
    /\ \E i \in 1..Len(shared_findings) :
          /\ ClassMatches("Critical", shared_findings[i].content)
          /\ ClassMatches("Low", shared_findings[i].content)
          /\ shared_findings[i].severity = "Critical"
    /\ \E i \in 1..Len(shared_findings) :
          /\ \A k \in 1..4 :
                ~ClassMatches(SeverityOrder[k], shared_findings[i].content)
          /\ shared_findings[i].severity = "Info"

\* C33: the counts of the severity summary add up to the number of findings,
\* and each finding is counted under the severity of its text.
C33_SummaryCountsFindings ==
    /\ get_severity_summary["Critical"] + get_severity_summary["High"]
          + get_severity_summary["Medium"] + get_severity_summary["Low"]
          + get_severity_summary["Info"] = Len(get_findings)
    /\ \A s \in Severities :
          get_severity_summary[s] =
              Cardinality({i \in 1..Len(get_findings) :
                  classify_severity(get_findings[i].content) = s})

\* findings of two workers and of two severities are in the list
C33_Witness ==
    /\ Len(get_findings) >= 2
    /\ get_findings[1].agent_id # get_findings[2].agent_id
    /\ get_findings[1].severity # get_findings[2].severity

\* the flags and the status of worker w are left as they are
Untouched(w) ==
    /\ status'[w] = status[w]
    /\ paused'[w] = paused[w]
    /\ stopped'[w] = stopped[w]

\* C34: pause_agent, resume_agent and delete_agent return False for an id
\* outside the pool and change neither the pool nor any worker; for a pooled
\* id they return True, delete_agent sets the stop flag of that worker and
\* removes exactly that id, and no other worker is touched.
C34_AgentCallsByIdOnly ==
    [][\A agent_id \in AdminIds :
          (pause_agent(agent_id) \/ resume_agent(agent_id)
              \/ delete_agent(agent_id))
          => IF agent_id \notin agents
             THEN /\ admin'.returned = FALSE
                  /\ agents' = agents
                  /\ \A w \in Workers : Untouched(w)
             ELSE /\ admin'.returned = TRUE
                  /\ \A w \in Workers \ {agent_id} : Untouched(w)
                  /\ IF delete_agent(agent_id)
                     THEN /\ stopped'[agent_id]
                          /\ agents' = agents \ {agent_id}
                     ELSE agents' = agents]_vars

\* a pooled worker was deleted while the other one stays in the pool as it
\* was
C34_Witness ==
    /\ admin = [op |-> "delete", agent_id |-> "a1", returned |-> TRUE]
    /\ "a1" \notin agents /\ stopped["a1"]
    /\ "a2" \in agents /\ ~stopped["a2"]

\* the start_operation call of start request o has begun and not ended
InProgress(o) == ops[o] \in {"gather", "report"}

\* C35: operation_active is true exactly while some start_operation call is
\* in progress.
C35_ActiveWhileInProgress ==
    operation_active <=> \E o \in Ops : InProgress(o)

\* the pool never holds more than this many agents
PoolCap == 10

\* C36: the pool of the manager holds at most 10 agents.
C36_PoolAtMostTen == Cardinality(agents) <= PoolCap

\* C37: what an agent was handed is what was added to its queue, in that
\* order, each instruction once: the additions of an agent are its pops
\* followed by its queue. A pop on an empty or unknown queue returns {} and
\* changes nothing; any other pop returns an instruction.
C37_QueuesFifoIsolated ==
    /\ \A a \in QueueIds :
          qd.added[a] = qd.popped[a] \o QueueOf(qd.agent_queues, a)
    /\ qd.ret.was_empty => qd.ret.value = NoInstruction /\ qd.ret.same
    /\ ~qd.ret.was_empty => qd.ret.value # NoInstruction /\ ~qd.ret.same

\* an agent popped two different instructions while the queue of another
\* agent holds some, and the last pop was one on an unknown agent
C37_Witness ==
    /\ Len(qd.popped["a1"]) >= 2
    /\ qd.popped["a1"][1] # qd.popped["a1"][2]
    /\ QueueOf(qd.agent_queues, "a2") # <<>>
    /\ qd.ret.agent_id = "ghost" /\ qd.ret.was_empty
    /\ "ghost" \notin DOMAIN qd.agent_queues

\* C40: a call that reached the network has raised request_count by one, a
\* call that failed has raised error_count by exactly one, and error_count
\* never passes request_count.
C40_RouterCountersConsistent ==
    /\ mr.outcome \notin {"none", "bad_key"}
          => mr.request_count = mr.requests_before + 1
    /\ mr.outcome \in RouterFailures \ {"bad_key"}
          => mr.error_count = mr.errors_before + 1
    /\ mr.error_count <= mr.request_count

\* the tasks the manager holds
HeldTasks(m) == {m.broadcast_task, m.history_broadcast_task} \ {0}

\* C38: when the last connection is removed the running flag is false, the
\* manager has forgotten both loop tasks and cancel() was called on each of
\* them that had not ended; a start_broadcast_task while running creates no
\* task.
C38_LoopsOnlyWithClients ==
    [][/\ (ws.active_connections # {} /\ ws'.active_connections = {})
            => /\ ~ws'.running
               /\ HeldTasks(ws') = {}
               /\ \A t \in HeldTasks(ws) :
                     ~TaskDone(ws, t) => ws'.tasks[t].cancelled
       /\ (ws.running /\ ws.active_connections # ws'.active_connections
               /\ ws.active_connections \subseteq ws'.active_connections)
            => /\ ws'.made = ws.made
               /\ HeldTasks(ws') = HeldTasks(ws)]_vars

\* the last client left while both loops were alive, and another client had
\* joined before while the loops were running
C38_Witness ==
    /\ ws.active_connections = {}
    /\ ~ws.running
    /\ ws.made = 2
    /\ \A t \in 1..2 : Alive(ws, t) /\ ws.tasks[t].cancelled

\* the loops of that kind that go on running: alive, no cancellation waiting
Running(kind) ==
    {t \in TaskIdsWs :
        /\ ws.tasks[t].kind = kind
        /\ Alive(ws, t)
        /\ ~ws.tasks[t].cancel}

\* C39: at most one agent-status loop and at most one history loop go on
\* running at any time.
C39_OneLoopOfEachKind ==
    /\ Cardinality(Running("agent")) <= 1
    /\ Cardinality(Running("history")) <= 1

====
